---- MODULE Spec2Model ----
(***************************************************************************)
(* rwanda-geo: the hierarchy index, navigator and search engine.           *)
(*                                                                         *)
(* Two implementations live in the repository and both are modelled:       *)
(*   - src/src/helpers.ts     : the data is imported statically, the index *)
(*                              allUnits is built when the module loads;   *)
(*   - src/unnamed/part_002   : the data is loaded lazily, the index       *)
(*                              allUnitsMap is built on first use.         *)
(* Definitions of the second implementation carry the suffix L.            *)
(*                                                                         *)
(* A code is modelled by the list of its hyphen-separated segments         *)
(* ("RW-KG-GAS" is <<"RW","KG","GAS">>, the empty string is <<"">>), a     *)
(* name, slug or query by the list of its characters.  An absent           *)
(* parentCode is the empty list NoCode.                                    *)
(***************************************************************************)
EXTENDS Integers, Sequences, FiniteSets, TLC

VARIABLES
    provincesData,   \* helpers.ts:9   the five immutable collections
    districtsData,   \* helpers.ts:10
    sectorsData,     \* helpers.ts:11
    cellsData,       \* helpers.ts:12
    villagesData,    \* helpers.ts:13
    files,           \* the paths at which a data file can be read and parsed
    dataCache,       \* lazy-loader.ts:6   filename -> parsed data
    loaded,          \* history: filenames loaded since the last clearDataCache
    allUnitsMap,     \* part_002:86   lazily built index, NULL before first use
    call,            \* the last completed call: operation, argument(s), result
    run              \* a call in progress, executed loop iteration by iteration

vars == <<provincesData, districtsData, sectorsData, cellsData, villagesData,
          files, dataCache, loaded, allUnitsMap, call, run>>

\* The data files: their contents and where they can be read.
dataVars == <<provincesData, districtsData, sectorsData, cellsData, villagesData,
              files>>

cacheVars == <<dataCache, loaded>>

----------------------------------------------------------------------------
(* Values *)

NoCode == <<>>

Undefined == [undefined |-> TRUE]

NULL == [null |-> TRUE]

NoCall == [op |-> "none"]

NoRun == [op |-> "none", pc |-> "idle"]

\* JavaScript truthiness of an optional string: undefined and "" are falsy.
Truthy(s) == s # NoCode /\ s # <<"">>

Unit(code, name, slug, parentCode) ==
    [code |-> code, name |-> name, slug |-> slug, parentCode |-> parentCode]

----------------------------------------------------------------------------
(* Sequence helpers: Array.prototype.filter, indexOf, includes *)

\* arr.filter(x => x.parentCode === code)
FilterByParent(arr, code) == SelectSeq(arr, LAMBDA x : x.parentCode = code)

\* arr.filter(x => x.code !== code)
FilterOutCode(arr, code) == SelectSeq(arr, LAMBDA x : x.code # code)

Range(s) == {s[i] : i \in 1..Len(s)}

Count(arr, x) == Cardinality({i \in 1..Len(arr) : arr[i] = x})

----------------------------------------------------------------------------
(* A JavaScript Map: entries in insertion order; set() on an existing key  *)
(* replaces the value in place.                                            *)

MapHas(m, k) == \E i \in 1..Len(m) : m[i].key = k

MapSet(m, k, v) ==
    IF MapHas(m, k)
    THEN [i \in 1..Len(m) |-> IF m[i].key = k THEN [key |-> k, value |-> v] ELSE m[i]]
    ELSE Append(m, [key |-> k, value |-> v])

MapGet(m, k) ==
    IF MapHas(m, k)
    THEN m[CHOOSE i \in 1..Len(m) : m[i].key = k].value
    ELSE Undefined

MapValues(m) == [i \in 1..Len(m) |-> m[i].value]

RECURSIVE MapSetEach(_, _)
\* units.forEach(u => m.set(u.code, u))
MapSetEach(m, units) ==
    IF units = <<>> THEN m
    ELSE MapSetEach(MapSet(m, Head(units).code, Head(units)), Tail(units))

RECURSIVE Flatten(_)
\* descendants.push(...a); descendants.push(...b); ...
Flatten(ss) == IF ss = <<>> THEN <<>> ELSE Head(ss) \o Flatten(Tail(ss))

----------------------------------------------------------------------------
(* src/src/helpers.ts : Record Store and Hierarchy Index *)

getAllProvinces == provincesData

getAllDistricts == districtsData

getAllSectors == sectorsData

getAllCells == cellsData

getAllVillages == villagesData

\* [...getAllProvinces(), ...getAllDistricts(), ..., ...getAllVillages()]
AllUnitsList ==
    getAllProvinces \o getAllDistricts \o getAllSectors \o getAllCells \o getAllVillages

\* An index that is filled from four collections only.
allUnits_skipsVillages ==
    MapSetEach(MapSetEach(MapSetEach(MapSetEach(<<>>,
        provincesData), districtsData), sectorsData), cellsData)

\* The index is filled at module load, one collection after the other.
allUnits ==
    MapSetEach(MapSetEach(MapSetEach(MapSetEach(MapSetEach(<<>>,
        provincesData), districtsData), sectorsData), cellsData), villagesData)

getByCode(code) == MapGet(allUnits, code)

getChildren(parentCode) == FilterByParent(MapValues(allUnits), parentCode)

getByLevel(level) ==
    CASE level = "province" -> getAllProvinces
      [] level = "district" -> getAllDistricts
      [] level = "sector"   -> getAllSectors
      [] level = "cell"     -> getAllCells
      [] level = "village"  -> getAllVillages
      [] OTHER              -> <<>>

\* Level by the number of hyphen-separated segments after "RW".
getCodeLevel(code) ==
    IF ~Truthy(code) THEN "undefined"
    ELSE IF code[1] # "RW" THEN "undefined"
    ELSE LET segs == Len(code) - 1 IN
         CASE segs = 1 -> "province"
           [] segs = 2 -> "district"
           [] segs = 3 -> "sector"
           [] segs = 4 -> "cell"
           [] segs >= 5 -> "village"
           [] OTHER -> "undefined"

----------------------------------------------------------------------------
(* src/src/helpers.ts : Hierarchy Navigator *)

\* One iteration of `while (currentUnit.parentCode)`: the loop is left when
\* the parentCode is falsy or resolves to no unit.
WalkStops(currentUnit) ==
    \/ ~Truthy(currentUnit.parentCode)
    \/ getByCode(currentUnit.parentCode) = Undefined

RECURSIVE WalkUp_push(_, _, _)
\* The walk with hierarchy.push(parent) in place of hierarchy.unshift(parent).
WalkUp_push(hierarchy, currentUnit, fuel) ==
    IF WalkStops(currentUnit) THEN [returned |-> TRUE, value |-> hierarchy]
    ELSE IF fuel = 0 THEN [returned |-> FALSE, value |-> hierarchy]
    ELSE LET parent == getByCode(currentUnit.parentCode) IN
         WalkUp_push(Append(hierarchy, parent), parent, fuel - 1)

RECURSIVE WalkUp(_, _, _)
\* The while loop of getHierarchy.  It is deterministic in currentUnit, so a
\* walk that takes more parent steps than the index has entries repeats a
\* unit and never leaves the loop: returned is FALSE for it.
WalkUp(hierarchy, currentUnit, fuel) ==
    IF WalkStops(currentUnit) THEN [returned |-> TRUE, value |-> hierarchy]
    ELSE IF fuel = 0 THEN [returned |-> FALSE, value |-> hierarchy]
    ELSE LET parent == getByCode(currentUnit.parentCode) IN
         WalkUp(<<parent>> \o hierarchy, parent, fuel - 1)

getHierarchyRun(code) ==
    LET unit == getByCode(code) IN
    IF unit = Undefined THEN [returned |-> TRUE, value |-> <<>>]
    ELSE WalkUp(<<unit>>, unit, Len(allUnits))

getHierarchy(code) == getHierarchyRun(code).value

getFullHierarchyRun(code) ==
    LET unit == getByCode(code) IN
    IF unit = Undefined THEN [returned |-> TRUE, value |-> <<>>]
    ELSE WalkUp(<<unit>>, unit, Len(allUnits))

getFullHierarchy(code) == getFullHierarchyRun(code).value

childLevelMap(parentLevel) ==
    CASE parentLevel = "province" -> "district"
      [] parentLevel = "district" -> "sector"
      [] parentLevel = "sector"   -> "cell"
      [] parentLevel = "cell"     -> "village"
      [] OTHER                    -> "undefined"

getDirectChildren(parentCode) ==
    IF getByCode(parentCode) = Undefined THEN <<>>
    ELSE IF getCodeLevel(parentCode) = "undefined" THEN <<>>
    ELSE IF childLevelMap(getCodeLevel(parentCode)) = "undefined" THEN <<>>
    ELSE FilterByParent(getByLevel(childLevelMap(getCodeLevel(parentCode))), parentCode)

\* Siblings without the filter that takes the unit itself out.
getSiblings_keepsSelf(code) ==
    LET unit == getByCode(code) IN
    IF unit = Undefined THEN <<>>
    ELSE IF ~Truthy(unit.parentCode) THEN <<>>
    ELSE getDirectChildren(unit.parentCode)

getSiblings(code) ==
    LET unit == getByCode(code) IN
    IF unit = Undefined THEN <<>>
    ELSE IF ~Truthy(unit.parentCode) THEN <<>>
    ELSE FilterOutCode(getDirectChildren(unit.parentCode), code)

RECURSIVE DescendRec(_, _)
\* The recursion of getAllDescendants.  A chain of nested calls longer than
\* the number of units passes the same code twice and recurses for ever:
\* returned is FALSE for it.
DescendRec(parentCode, fuel) ==
    LET directChildren == getDirectChildren(parentCode) IN
    IF directChildren = <<>> THEN [returned |-> TRUE, value |-> <<>>]
    ELSE IF fuel = 0 THEN [returned |-> FALSE, value |-> directChildren]
    ELSE LET subs == [i \in 1..Len(directChildren) |->
                         DescendRec(directChildren[i].code, fuel - 1)] IN
         [returned |-> \A i \in 1..Len(directChildren) : subs[i].returned,
          value |-> directChildren \o
                    Flatten([i \in 1..Len(directChildren) |-> subs[i].value])]

getAllDescendantsRun(parentCode) == DescendRec(parentCode, Len(AllUnitsList))

getAllDescendants(parentCode) == getAllDescendantsRun(parentCode).value

----------------------------------------------------------------------------
(* src/src/utils/lazy-loader.ts : the cache of parsed data files.  A path  *)
(* is a member of files when a file is there and can be read, decompressed  *)
(* and parsed; the loop over the paths skips every other path.  The package *)
(* root is the directory the module is installed in.                        *)

Filenames == <<"provinces", "districts", "sectors", "cells", "villages">>

\* const paths = [...]
paths(filename) ==
    << [dir |-> "dist/data", filename |-> filename, ext |-> ".json.gz"],
       [dir |-> "src/data",  filename |-> filename, ext |-> ".json.gz"],
       [dir |-> "dist/data", filename |-> filename, ext |-> ".json"],
       [dir |-> "src/data",  filename |-> filename, ext |-> ".json"] >>

\* What JSON.parse yields for a data file of the package.
FileData(filename) ==
    CASE filename = "provinces" -> provincesData
      [] filename = "districts" -> districtsData
      [] filename = "sectors"   -> sectorsData
      [] filename = "cells"     -> cellsData
      [] filename = "villages"  -> villagesData
      [] OTHER                  -> <<>>

\* The published package: every data file compressed under dist/data.
InstalledFiles == {paths(Filenames[i])[1] : i \in 1..Len(Filenames)}

RECURSIVE TryPaths(_, _, _)
\* for (const path of paths): the first path that loads is cached and
\* returned; when none does the function throws.  read lists the files read.
TryPaths(cache, filename, ps) ==
    IF ps = <<>>
    THEN [throws |-> TRUE, value |-> Undefined, read |-> <<>>, cache |-> cache]
    ELSE IF Head(ps) \in files
    THEN [throws |-> FALSE, value |-> FileData(filename), read |-> <<Head(ps)>>,
          cache |-> MapSet(cache, filename, FileData(filename))]
    ELSE TryPaths(cache, filename, Tail(ps))

\* A load that stores nothing in the cache.
lazyLoadGzippedJson_uncached(cache, filename) ==
    [TryPaths(cache, filename, paths(filename)) EXCEPT !.cache = cache]

\* The call on the cache `cache`: what it returns or that it throws, the
\* files it read and the cache it leaves.
lazyLoadGzippedJson(cache, filename) ==
    IF MapHas(cache, filename)
    THEN [throws |-> FALSE, value |-> MapGet(cache, filename), read |-> <<>>,
          cache |-> cache]
    ELSE TryPaths(cache, filename, paths(filename))

RECURSIVE preloadData(_, _)
\* filenames.forEach: a filename that is not cached is loaded, a failure is
\* caught and logged.
preloadData(cache, filenames) ==
    IF filenames = <<>> THEN [cache |-> cache, read |-> <<>>]
    ELSE LET r == lazyLoadGzippedJson(cache, Head(filenames))
             rest == preloadData(r.cache, Tail(filenames)) IN
         IF MapHas(cache, Head(filenames))
         THEN preloadData(cache, Tail(filenames))
         ELSE [cache |-> rest.cache, read |-> r.read \o rest.read]

\* dataCache.clear()
clearDataCache == <<>>

\* { size: dataCache.size, keys: Array.from(dataCache.keys()) }
getCacheStats ==
    [size |-> Len(dataCache), keys |-> [i \in 1..Len(dataCache) |-> dataCache[i].key]]

\* The filenames of the files a call read and parsed.
LoadedFrom(read) == {read[i].filename : i \in 1..Len(read)}

\* The names up to the first one whose load throws: the loads a function
\* without try/catch gets to make.
RECURSIVE UpToFirstThrow(_)
UpToFirstThrow(names) ==
    IF names = <<>> THEN <<>>
    ELSE IF lazyLoadGzippedJson(dataCache, Head(names)).throws THEN <<Head(names)>>
    ELSE <<Head(names)>> \o UpToFirstThrow(Tail(names))

\* The effect on the cache of loading names one after the other, each
\* failure caught or ending the call.
LoadsData(names) ==
    /\ dataCache' = preloadData(dataCache, names).cache
    /\ loaded' = loaded \cup LoadedFrom(preloadData(dataCache, names).read)

----------------------------------------------------------------------------
(* src/unnamed/part_002 : lazily built index and navigator *)

getProvincesData == lazyLoadGzippedJson(dataCache, "provinces")

getDistrictsData == lazyLoadGzippedJson(dataCache, "districts")

getSectorsData == lazyLoadGzippedJson(dataCache, "sectors")

getCellsData == lazyLoadGzippedJson(dataCache, "cells")

getVillagesData == lazyLoadGzippedJson(dataCache, "villages")

\* try { get...Data().forEach(...) } catch { console.warn(...) }: a collection
\* that cannot be loaded adds nothing to the index.
OrNothing(r) == IF r.throws THEN <<>> ELSE r.value

\* The value of allUnitsMap after getAllUnitsMap(): built on first use, kept
\* afterwards.
getAllUnitsMap ==
    IF allUnitsMap = NULL
    THEN MapSetEach(MapSetEach(MapSetEach(MapSetEach(MapSetEach(<<>>,
             OrNothing(getProvincesData)), OrNothing(getDistrictsData)),
             OrNothing(getSectorsData)), OrNothing(getCellsData)),
             OrNothing(getVillagesData))
    ELSE allUnitsMap

\* The loads getAllUnitsMap() makes: all five on first use, none afterwards.
LoadsIndexData == LoadsData(IF allUnitsMap = NULL THEN Filenames ELSE <<>>)

getByCodeL(code) == MapGet(getAllUnitsMap, code)

getChildrenL(parentCode) == FilterByParent(MapValues(getAllUnitsMap), parentCode)

WalkStopsL(currentUnit) ==
    \/ ~Truthy(currentUnit.parentCode)
    \/ getByCodeL(currentUnit.parentCode) = Undefined

RECURSIVE WalkUpL(_, _, _)
WalkUpL(hierarchy, currentUnit, fuel) ==
    IF WalkStopsL(currentUnit) THEN [returned |-> TRUE, value |-> hierarchy]
    ELSE IF fuel = 0 THEN [returned |-> FALSE, value |-> hierarchy]
    ELSE LET parent == getByCodeL(currentUnit.parentCode) IN
         WalkUpL(<<parent>> \o hierarchy, parent, fuel - 1)

getHierarchyRunL(code) ==
    LET unit == getByCodeL(code) IN
    IF unit = Undefined THEN [returned |-> TRUE, value |-> <<>>]
    ELSE WalkUpL(<<unit>>, unit, Len(getAllUnitsMap))

getHierarchyL(code) == getHierarchyRunL(code).value

getFullHierarchyRunL(code) == getHierarchyRunL(code)

getFullHierarchyL(code) == getFullHierarchyRunL(code).value

getDirectChildrenL(parentCode) == getChildrenL(parentCode)

getSiblingsL(code) ==
    LET unit == getByCodeL(code) IN
    IF unit = Undefined THEN <<>>
    ELSE IF ~Truthy(unit.parentCode) THEN <<>>
    ELSE FilterOutCode(getChildrenL(unit.parentCode), code)

CodesOf(units) == [i \in 1..Len(units) |-> units[i].code]

RECURSIVE QueueLoop(_, _, _)
\* `while (queue.length > 0)` of getAllDescendants.  Every unit has one
\* parentCode and the index one unit per code, so a run that ends takes each
\* unit from the queue at most once; a run that needs more iterations than
\* there are entries plus one never ends: returned is FALSE for it.
QueueLoop(queue, descendants, fuel) ==
    IF queue = <<>> THEN [returned |-> TRUE, value |-> descendants]
    ELSE IF fuel = 0 THEN [returned |-> FALSE, value |-> descendants]
    ELSE LET children == getChildrenL(Head(queue)) IN
         QueueLoop(Tail(queue) \o CodesOf(children), descendants \o children, fuel - 1)

getAllDescendantsRunL(parentCode) ==
    QueueLoop(<<parentCode>>, <<>>, Len(getAllUnitsMap) + 1)

getAllDescendantsL(parentCode) == getAllDescendantsRunL(parentCode).value

----------------------------------------------------------------------------
(* Datasets.  Two well-formed datasets, one in each code convention of the *)
(* repository, and every dataset that differs from one of them in the code *)
(* or the parentCode of a single unit.                                     *)

Levels == {"provinces", "districts", "sectors", "cells", "villages"}

\* Codes by segment count (README.md:246-250, helpers.test.ts:121-125).
SegData ==
    [provinces |-> << Unit(<<"RW","KG">>, <<"K","i">>, <<"k","i">>, NoCode) >>,
     districts |-> << Unit(<<"RW","KG","GAS">>, <<"G","a">>, <<"g","a">>, <<"RW","KG">>),
                      Unit(<<"RW","KG","NYA">>, <<"N","y">>, <<"n","y">>, <<"RW","KG">>) >>,
     sectors   |-> << Unit(<<"RW","KG","GAS","BUM">>, <<"B","u">>, <<"b","u">>,
                           <<"RW","KG","GAS">>) >>,
     cells     |-> << Unit(<<"RW","KG","GAS","BUM","KIN">>, <<"K","a">>, <<"k","a">>,
                           <<"RW","KG","GAS","BUM">>) >>,
     villages  |-> << Unit(<<"RW","KG","GAS","BUM","KIN","AKA">>, <<"A","k">>, <<"a","k">>,
                           <<"RW","KG","GAS","BUM","KIN">>) >>]

\* Codes by level prefix (types.ts:21-54, scripts/generate-data.js:149-253).
PrefixData ==
    [provinces |-> << Unit(<<"RW","01">>, <<"K","i">>, <<"k","i">>, NoCode) >>,
     districts |-> << Unit(<<"RW","D","01">>, <<"G","a">>, <<"g","a">>, <<"RW","01">>),
                      Unit(<<"RW","D","02">>, <<"N","y">>, <<"n","y">>, <<"RW","01">>) >>,
     sectors   |-> << Unit(<<"RW","S","001">>, <<"B","u">>, <<"b","u">>, <<"RW","D","01">>) >>,
     cells     |-> << Unit(<<"RW","C","0001">>, <<"K","a">>, <<"k","a">>, <<"RW","S","001">>) >>,
     villages  |-> << Unit(<<"RW","V","00001">>, <<"A","k">>, <<"a","k">>,
                           <<"RW","C","0001">>) >>]

\* SegData with a sector under the second district as well: the subtree of
\* the first district is deeper than that of the second.
WideData ==
    [SegData EXCEPT !.sectors =
        Append(SegData.sectors,
               Unit(<<"RW","KG","NYA","BUM">>, <<"M","u">>, <<"m","u">>,
                    <<"RW","KG","NYA">>))]

DataUnits(ds) ==
    ds.provinces \o ds.districts \o ds.sectors \o ds.cells \o ds.villages

\* A code no unit of the base datasets has (helpers.test.ts:68).
UnknownCode == <<"RW","XX","YYY">>

CodePool(ds) == {u.code : u \in Range(DataUnits(ds))} \cup {UnknownCode}

OneDefect(ds) ==
    UNION {UNION {
        {[ds EXCEPT ![lvl][i].code = c] : c \in CodePool(ds)} \cup
        {[ds EXCEPT ![lvl][i].parentCode = c] : c \in CodePool(ds) \cup {NoCode, <<"">>}}
      : i \in 1..Len(ds[lvl])} : lvl \in Levels}

NavDatasets ==
    {SegData, PrefixData, WideData} \cup OneDefect(SegData) \cup OneDefect(PrefixData)

\* Arguments of the calls: every code and parentCode of the dataset, a code
\* that no unit has, and the empty string.
ArgCodes ==
    {u.code : u \in Range(AllUnitsList)} \cup
    {u.parentCode : u \in {x \in Range(AllUnitsList) : x.parentCode # NoCode}} \cup
    {UnknownCode, <<"">>}

----------------------------------------------------------------------------
(* Specification of the navigator: a dataset is loaded and one exported    *)
(* operation is applied to it.  The Call_ actions are whole calls, from    *)
(* the arguments to the returned value; a call that never returns has no   *)
(* such step.  The Start_ and Step_ actions further down execute the loops *)
(* of the same operations one iteration at a time.                         *)

InitData(ds) ==
    /\ provincesData = ds.provinces
    /\ districtsData = ds.districts
    /\ sectorsData = ds.sectors
    /\ cellsData = ds.cells
    /\ villagesData = ds.villages
    /\ files = InstalledFiles

Init ==
    /\ \E ds \in NavDatasets : InitData(ds)
    /\ dataCache = <<>>
    /\ loaded = {}
    /\ allUnitsMap = NULL
    /\ call = NoCall
    /\ run = NoRun

\* A call is made on the freshly loaded module and runs to its return.
Idle == call = NoCall /\ run = NoRun

Returns(op, impl, arg, result) ==
    call' = [op |-> op, impl |-> impl, arg |-> arg, result |-> result]

Call_getByCode ==
    /\ Idle
    /\ \E code \in ArgCodes :
        /\ Returns("getByCode", "helpers", code, getByCode(code))
        /\ UNCHANGED <<dataVars, cacheVars, allUnitsMap, run>>

Call_getHierarchy ==
    /\ Idle
    /\ \E code \in ArgCodes :
        /\ getHierarchyRun(code).returned
        /\ Returns("getHierarchy", "helpers", code, getHierarchy(code))
        /\ UNCHANGED <<dataVars, cacheVars, allUnitsMap, run>>

Call_getFullHierarchy ==
    /\ Idle
    /\ \E code \in ArgCodes :
        /\ getFullHierarchyRun(code).returned
        /\ Returns("getFullHierarchy", "helpers", code, getFullHierarchy(code))
        /\ UNCHANGED <<dataVars, cacheVars, allUnitsMap, run>>

Call_getDirectChildren ==
    /\ Idle
    /\ \E code \in ArgCodes :
        /\ Returns("getDirectChildren", "helpers", code, getDirectChildren(code))
        /\ UNCHANGED <<dataVars, cacheVars, allUnitsMap, run>>

Call_getSiblings ==
    /\ Idle
    /\ \E code \in ArgCodes :
        /\ Returns("getSiblings", "helpers", code, getSiblings(code))
        /\ UNCHANGED <<dataVars, cacheVars, allUnitsMap, run>>

Call_getAllDescendants ==
    /\ Idle
    /\ \E code \in ArgCodes :
        /\ getAllDescendantsRun(code).returned
        /\ Returns("getAllDescendants", "helpers", code, getAllDescendants(code))
        /\ UNCHANGED <<dataVars, cacheVars, allUnitsMap, run>>

Call_getByCodeL ==
    /\ Idle
    /\ \E code \in ArgCodes :
        /\ Returns("getByCode", "lazy", code, getByCodeL(code))
        /\ allUnitsMap' = getAllUnitsMap
        /\ LoadsIndexData
        /\ UNCHANGED <<dataVars, run>>

Call_getHierarchyL ==
    /\ Idle
    /\ \E code \in ArgCodes :
        /\ getHierarchyRunL(code).returned
        /\ Returns("getHierarchy", "lazy", code, getHierarchyL(code))
        /\ allUnitsMap' = getAllUnitsMap
        /\ LoadsIndexData
        /\ UNCHANGED <<dataVars, run>>

Call_getFullHierarchyL ==
    /\ Idle
    /\ \E code \in ArgCodes :
        /\ getFullHierarchyRunL(code).returned
        /\ Returns("getFullHierarchy", "lazy", code, getFullHierarchyL(code))
        /\ allUnitsMap' = getAllUnitsMap
        /\ LoadsIndexData
        /\ UNCHANGED <<dataVars, run>>

Call_getDirectChildrenL ==
    /\ Idle
    /\ \E code \in ArgCodes :
        /\ Returns("getDirectChildren", "lazy", code, getDirectChildrenL(code))
        /\ allUnitsMap' = getAllUnitsMap
        /\ LoadsIndexData
        /\ UNCHANGED <<dataVars, run>>

Call_getSiblingsL ==
    /\ Idle
    /\ \E code \in ArgCodes :
        /\ Returns("getSiblings", "lazy", code, getSiblingsL(code))
        /\ allUnitsMap' = getAllUnitsMap
        /\ LoadsIndexData
        /\ UNCHANGED <<dataVars, run>>

Call_getAllDescendantsL ==
    /\ Idle
    /\ \E code \in ArgCodes :
        /\ getAllDescendantsRunL(code).returned
        /\ Returns("getAllDescendants", "lazy", code, getAllDescendantsL(code))
        /\ allUnitsMap' = getAllUnitsMap
        /\ LoadsIndexData
        /\ UNCHANGED <<dataVars, run>>

----------------------------------------------------------------------------
(* Integrity validator.  A message is the sequence of the pieces of its    *)
(* template; a field the returned object does not have is Undefined.       *)

ValidationResult(isValid, error, parentLevel, childLevel) ==
    [isValid |-> isValid, error |-> error,
     parentLevel |-> parentLevel, childLevel |-> childLevel]

validHierarchy(parentLevel) ==
    CASE parentLevel = "province" -> {"district"}
      [] parentLevel = "district" -> {"sector"}
      [] parentLevel = "sector" -> {"cell"}
      [] parentLevel = "cell" -> {"village"}
      [] OTHER -> {}

validateParentChildRelationship(parentCode, childCode) ==
    LET parent == getByCode(parentCode)
        child == getByCode(childCode)
        parentLevel == getCodeLevel(parentCode)
        childLevel == getCodeLevel(childCode) IN
    IF parent = Undefined
    THEN ValidationResult(FALSE, <<"Parent code '", parentCode, "' does not exist">>,
                          Undefined, Undefined)
    ELSE IF child = Undefined
    THEN ValidationResult(FALSE, <<"Child code '", childCode, "' does not exist">>,
                          Undefined, Undefined)
    ELSE IF parentLevel = "undefined" \/ childLevel = "undefined"
    THEN ValidationResult(FALSE, <<"Invalid code levels">>, Undefined, Undefined)
    ELSE IF child.parentCode # parentCode
    THEN ValidationResult(FALSE,
                          <<"Child '", childCode, "' has parent '", child.parentCode,
                            "', not '", parentCode, "'">>,
                          parentLevel, childLevel)
    ELSE IF childLevel \notin validHierarchy(parentLevel)
    THEN ValidationResult(FALSE,
                          <<"Invalid hierarchy: ", parentLevel, " cannot have ",
                            childLevel, " as child">>,
                          parentLevel, childLevel)
    ELSE ValidationResult(TRUE, Undefined, parentLevel, childLevel)

\* part_002: a code has a level only if a unit has it; the level is read
\* from the prefix.  TwoDigits are the segments of the data made of two
\* digits.
isValidCodeL(code) == MapHas(getAllUnitsMap, code)

TwoDigits == {"01", "02"}

getCodeLevelL(code) ==
    IF ~isValidCodeL(code) THEN "undefined"
    ELSE IF Len(code) = 2 /\ code[1] = "RW" /\ code[2] \in TwoDigits THEN "province"
    ELSE IF Len(code) >= 3 /\ code[1] = "RW" /\ code[2] = "D" THEN "district"
    ELSE IF Len(code) >= 3 /\ code[1] = "RW" /\ code[2] = "S" THEN "sector"
    ELSE IF Len(code) >= 3 /\ code[1] = "RW" /\ code[2] = "C" THEN "cell"
    ELSE IF Len(code) >= 3 /\ code[1] = "RW" /\ code[2] = "V" THEN "village"
    ELSE "undefined"

validateParentChildRelationshipL(parentCode, childCode) ==
    LET parent == getByCodeL(parentCode)
        child == getByCodeL(childCode)
        parentLevel == getCodeLevelL(parentCode)
        childLevel == getCodeLevelL(childCode) IN
    IF parent = Undefined
    THEN ValidationResult(FALSE, <<"Parent code '", parentCode, "' not found">>,
                          Undefined, Undefined)
    ELSE IF child = Undefined
    THEN ValidationResult(FALSE, <<"Child code '", childCode, "' not found">>,
                          Undefined, Undefined)
    ELSE IF parentLevel = "undefined" \/ childLevel = "undefined"
    THEN ValidationResult(FALSE, <<"Invalid code format">>, Undefined, Undefined)
    ELSE IF child.parentCode # parentCode
    THEN ValidationResult(FALSE,
                          <<"Child '", childCode, "' does not have parent '",
                            parentCode, "'">>,
                          parentLevel, childLevel)
    ELSE ValidationResult(TRUE, Undefined, parentLevel, childLevel)

Issue(type, message, code) == [type |-> type, message |-> message, code |-> code]

CodesOfUnits(units) == [i \in 1..Len(units) |-> units[i].code]

\* Array.prototype.indexOf, counted from 0; -1 when the element is absent.
indexOf(arr, x) ==
    IF \E i \in 1..Len(arr) : arr[i] = x
    THEN (CHOOSE i \in 1..Len(arr) : arr[i] = x /\ \A j \in 1..(i - 1) : arr[j] # x) - 1
    ELSE -1

\* The issue list and the four counters of a call, before the first unit.
NoIssues ==
    [issues |-> <<>>, orphanedUnits |-> 0, invalidParents |-> 0,
     circularReferences |-> 0, missingUnits |-> 0]

\* issues.push(issue)
Push(found, issue) == [found EXCEPT !.issues = Append(@, issue)]

\* The first forEach of helpers.ts for a unit, with the orphan branch empty.
FirstPass_orphansUnreported(found, unit) ==
    IF ~Truthy(unit.parentCode) THEN found
    ELSE IF getByCode(unit.parentCode) = Undefined THEN found
    ELSE LET validation == validateParentChildRelationship(unit.parentCode, unit.code) IN
         IF ~validation.isValid
         THEN [Push(found, Issue("invalid_parent", validation.error, unit.code))
                  EXCEPT !.invalidParents = @ + 1]
         ELSE found

\* The first forEach with a counter that is not incremented.
FirstPass_uncounted(found, unit) ==
    IF ~Truthy(unit.parentCode) THEN found
    ELSE IF getByCode(unit.parentCode) = Undefined
    THEN Push(found, Issue("orphaned",
                           <<"Unit '", unit.code, "' has non-existent parent '",
                             unit.parentCode, "'">>, unit.code))
    ELSE LET validation == validateParentChildRelationship(unit.parentCode, unit.code) IN
         IF ~validation.isValid
         THEN [Push(found, Issue("invalid_parent", validation.error, unit.code))
                  EXCEPT !.invalidParents = @ + 1]
         ELSE found

\* The body of the first forEach of helpers.ts: what it pushes and counts
\* for a unit.
FirstPass(found, unit) ==
    IF ~Truthy(unit.parentCode) THEN found
    ELSE IF getByCode(unit.parentCode) = Undefined
    THEN [Push(found, Issue("orphaned",
                            <<"Unit '", unit.code, "' has non-existent parent '",
                              unit.parentCode, "'">>, unit.code))
             EXCEPT !.orphanedUnits = @ + 1]
    ELSE LET hierarchyCodes == CodesOfUnits(getFullHierarchy(unit.code))
             validation == validateParentChildRelationship(unit.parentCode, unit.code)
             checked ==
                 IF /\ indexOf(hierarchyCodes, unit.code) # -1
                    /\ indexOf(hierarchyCodes, unit.code) # Len(hierarchyCodes) - 1
                 THEN [Push(found, Issue("circular_reference",
                                         <<"Circular reference detected in hierarchy for '",
                                           unit.code, "'">>, unit.code))
                          EXCEPT !.circularReferences = @ + 1]
                 ELSE found IN
         IF ~validation.isValid
         THEN [Push(checked, Issue("invalid_parent", validation.error, unit.code))
                  EXCEPT !.invalidParents = @ + 1]
         ELSE checked

expectedLength(code) ==
    IF getCodeLevel(code) = "village" THEN 5
    ELSE IF getCodeLevel(code) = "cell" THEN 4
    ELSE IF getCodeLevel(code) = "sector" THEN 3
    ELSE IF getCodeLevel(code) = "district" THEN 2
    ELSE 1

\* The body of the second forEach.
SecondPass(found, unit) ==
    IF ~Truthy(unit.parentCode) THEN found
    ELSE LET hierarchy == getFullHierarchy(unit.code) IN
         IF Len(hierarchy) # expectedLength(unit.code)
         THEN [Push(found,
                    Issue("missing_unit",
                          <<"Incomplete hierarchy for '", unit.code, "': expected ",
                            expectedLength(unit.code), " levels, got ", Len(hierarchy)>>,
                          unit.code))
                  EXCEPT !.missingUnits = @ + 1]
         ELSE found

\* Whether the calls of getFullHierarchy a pass makes for a unit return.
WalkReturns(unit, pass) ==
    \/ ~Truthy(unit.parentCode)
    \/ pass = 1 /\ getByCode(unit.parentCode) = Undefined
    \/ getFullHierarchyRun(unit.code).returned

\* The returned object.
Report(found, totalUnits) ==
    [isValid |-> Len(found.issues) = 0,
     issues |-> found.issues,
     summary |-> [totalUnits |-> totalUnits,
                  orphanedUnits |-> found.orphanedUnits,
                  invalidParents |-> found.invalidParents,
                  circularReferences |-> found.circularReferences,
                  missingUnits |-> found.missingUnits]]

RECURSIVE PassIssues(_, _, _)
\* allUnits.forEach of the first or of the second pass.
PassIssues(found, units, pass) ==
    IF units = <<>> THEN found
    ELSE PassIssues(IF pass = 1 THEN FirstPass(found, Head(units))
                    ELSE SecondPass(found, Head(units)),
                    Tail(units), pass)

validateHierarchyIntegrityRun ==
    IF \A i \in 1..Len(AllUnitsList) :
          WalkReturns(AllUnitsList[i], 1) /\ WalkReturns(AllUnitsList[i], 2)
    THEN [returned |-> TRUE,
          value |-> Report(PassIssues(PassIssues(NoIssues, AllUnitsList, 1),
                                      AllUnitsList, 2),
                           Len(AllUnitsList))]
    ELSE [returned |-> FALSE, value |-> Undefined]

validateHierarchyIntegrity == validateHierarchyIntegrityRun.value

\* The body of the forEach of part_002.
UnitIssuesL(found, unit) ==
    LET orphans ==
            IF Truthy(unit.parentCode) /\ getByCodeL(unit.parentCode) = Undefined
            THEN [Push(found, Issue("orphaned",
                                    <<"Unit '", unit.code, "' has missing parent '",
                                      unit.parentCode, "'">>, unit.code))
                     EXCEPT !.orphanedUnits = @ + 1]
            ELSE found IN
    IF Truthy(unit.parentCode) /\ getByCodeL(unit.parentCode) # Undefined
    THEN LET validation == validateParentChildRelationshipL(unit.parentCode, unit.code) IN
         IF ~validation.isValid
         THEN [Push(orphans, Issue("invalid_parent", validation.error, unit.code))
                  EXCEPT !.invalidParents = @ + 1]
         ELSE orphans
    ELSE orphans

RECURSIVE IssuesL(_, _)
IssuesL(found, units) ==
    IF units = <<>> THEN found
    ELSE IssuesL(UnitIssuesL(found, Head(units)), Tail(units))

validateHierarchyIntegrityL ==
    Report(IssuesL(NoIssues, MapValues(getAllUnitsMap)), Len(getAllUnitsMap))

Call_validateParentChildRelationship ==
    /\ Idle
    /\ \E parentCode \in ArgCodes, childCode \in ArgCodes :
          Returns("validateParentChildRelationship", "helpers",
                  [parentCode |-> parentCode, childCode |-> childCode],
                  validateParentChildRelationship(parentCode, childCode))
    /\ UNCHANGED <<dataVars, cacheVars, allUnitsMap, run>>

Call_validateParentChildRelationshipL ==
    /\ Idle
    /\ \E parentCode \in ArgCodes, childCode \in ArgCodes :
          Returns("validateParentChildRelationship", "lazy",
                  [parentCode |-> parentCode, childCode |-> childCode],
                  validateParentChildRelationshipL(parentCode, childCode))
    /\ allUnitsMap' = getAllUnitsMap
    /\ LoadsIndexData
    /\ UNCHANGED <<dataVars, run>>

Call_validateHierarchyIntegrity ==
    /\ Idle
    /\ validateHierarchyIntegrityRun.returned
    /\ Returns("validateHierarchyIntegrity", "helpers", <<>>, validateHierarchyIntegrity)
    /\ UNCHANGED <<dataVars, cacheVars, allUnitsMap, run>>

Call_validateHierarchyIntegrityL ==
    /\ Idle
    /\ Returns("validateHierarchyIntegrity", "lazy", <<>>, validateHierarchyIntegrityL)
    /\ allUnitsMap' = getAllUnitsMap
    /\ LoadsIndexData
    /\ UNCHANGED <<dataVars, run>>

----------------------------------------------------------------------------
(* The loops of the navigator, one iteration per step.  An array cannot    *)
(* grow and the call stack cannot deepen without limit: a call that        *)
(* reaches the limit has exhausted the engine and never returns.  The      *)
(* limits are scaled down; they exceed what any returning call needs on a  *)
(* dataset of six units.                                                   *)

MaxArrayLength == 8

MaxCallStack == 8

WalkStart(op, code) ==
    LET unit == getByCode(code) IN
    IF unit = Undefined
    THEN [op |-> op, arg |-> code, pc |-> "done", hierarchy |-> <<>>,
          currentUnit |-> Undefined]
    ELSE [op |-> op, arg |-> code, pc |-> "loop", hierarchy |-> <<unit>>,
          currentUnit |-> unit]

WalkStep(r) ==
    IF WalkStops(r.currentUnit) THEN [r EXCEPT !.pc = "done"]
    ELSE IF Len(r.hierarchy) >= MaxArrayLength THEN [r EXCEPT !.pc = "exhausted"]
    ELSE LET parent == getByCode(r.currentUnit.parentCode) IN
         [r EXCEPT !.hierarchy = <<parent>> \o r.hierarchy, !.currentUnit = parent]

Start_getHierarchy ==
    /\ Idle
    /\ \E code \in ArgCodes : run' = WalkStart("getHierarchy", code)
    /\ UNCHANGED <<dataVars, cacheVars, allUnitsMap, call>>

Step_getHierarchy ==
    /\ run.op = "getHierarchy"
    /\ run.pc = "loop"
    /\ run' = WalkStep(run)
    /\ UNCHANGED <<dataVars, cacheVars, allUnitsMap, call>>

Start_getFullHierarchy ==
    /\ Idle
    /\ \E code \in ArgCodes : run' = WalkStart("getFullHierarchy", code)
    /\ UNCHANGED <<dataVars, cacheVars, allUnitsMap, call>>

Step_getFullHierarchy ==
    /\ run.op = "getFullHierarchy"
    /\ run.pc = "loop"
    /\ run' = WalkStep(run)
    /\ UNCHANGED <<dataVars, cacheVars, allUnitsMap, call>>

\* A stack frame of the recursive getAllDescendants: its descendants array,
\* its directChildren and the position of forEach in them.
Frame(parentCode) ==
    [descendants |-> getDirectChildren(parentCode),
     directChildren |-> getDirectChildren(parentCode),
     i |-> 1]

Start_getAllDescendants ==
    /\ Idle
    /\ \E code \in ArgCodes :
          run' = [op |-> "getAllDescendants", arg |-> code, pc |-> "loop",
                  stack |-> <<Frame(code)>>, descendants |-> <<>>]
    /\ UNCHANGED <<dataVars, cacheVars, allUnitsMap, call>>

Step_getAllDescendants ==
    /\ run.op = "getAllDescendants"
    /\ run.pc = "loop"
    /\ LET depth == Len(run.stack)
           top == run.stack[depth] IN
       IF top.i > Len(top.directChildren)
       THEN \* return descendants
            IF depth = 1
            THEN run' = [run EXCEPT !.pc = "done", !.descendants = top.descendants]
            ELSE LET caller == run.stack[depth - 1] IN
                 IF Len(caller.descendants) + Len(top.descendants) > MaxArrayLength
                 THEN run' = [run EXCEPT !.pc = "exhausted"]
                 ELSE run' = [run EXCEPT !.stack =
                         Append(SubSeq(run.stack, 1, depth - 2),
                                [caller EXCEPT
                                   !.descendants = caller.descendants \o top.descendants,
                                   !.i = caller.i + 1])]
       ELSE \* getAllDescendants(child.code)
            IF depth >= MaxCallStack
            THEN run' = [run EXCEPT !.pc = "exhausted"]
            ELSE run' = [run EXCEPT !.stack =
                            Append(run.stack, Frame(top.directChildren[top.i].code))]
    /\ UNCHANGED <<dataVars, cacheVars, allUnitsMap, call>>

Start_getAllDescendantsL ==
    /\ Idle
    /\ \E code \in ArgCodes :
          run' = [op |-> "getAllDescendantsL", arg |-> code, pc |-> "loop",
                  queue |-> <<code>>, descendants |-> <<>>]
    /\ UNCHANGED <<dataVars, cacheVars, allUnitsMap, call>>

Step_getAllDescendantsL ==
    /\ run.op = "getAllDescendantsL"
    /\ run.pc = "loop"
    /\ IF run.queue = <<>>
       THEN run' = [run EXCEPT !.pc = "done"] /\ UNCHANGED <<cacheVars, allUnitsMap>>
       ELSE LET children == getChildrenL(Head(run.queue)) IN
            /\ allUnitsMap' = getAllUnitsMap
            /\ LoadsIndexData
            /\ IF Len(run.descendants) + Len(children) > MaxArrayLength
               THEN run' = [run EXCEPT !.pc = "exhausted"]
               ELSE run' = [run EXCEPT
                              !.queue = Tail(run.queue) \o CodesOf(children),
                              !.descendants = run.descendants \o children]
    /\ UNCHANGED <<dataVars, call>>

\* validateHierarchyIntegrity of helpers.ts, one unit of a forEach per step;
\* a unit whose getFullHierarchy does not return exhausts the engine.
Start_validateHierarchyIntegrity ==
    /\ Idle
    /\ run' = [op |-> "validateHierarchyIntegrity", pc |-> "loop", pass |-> 1,
               index |-> 1, found |-> NoIssues, value |-> Undefined]
    /\ UNCHANGED <<dataVars, cacheVars, allUnitsMap, call>>

Step_validateHierarchyIntegrity ==
    /\ run.op = "validateHierarchyIntegrity"
    /\ run.pc = "loop"
    /\ IF run.index > Len(AllUnitsList)
       THEN IF run.pass = 1
            THEN run' = [run EXCEPT !.pass = 2, !.index = 1]
            ELSE run' = [run EXCEPT !.pc = "done",
                                    !.value = Report(run.found, Len(AllUnitsList))]
       ELSE LET unit == AllUnitsList[run.index] IN
            IF ~WalkReturns(unit, run.pass)
            THEN run' = [run EXCEPT !.pc = "exhausted"]
            ELSE run' = [run EXCEPT
                           !.index = run.index + 1,
                           !.found = IF run.pass = 1 THEN FirstPass(run.found, unit)
                                     ELSE SecondPass(run.found, unit)]
    /\ UNCHANGED <<dataVars, cacheVars, allUnitsMap, call>>

Next ==
    \/ Call_getByCode
    \/ Call_getHierarchy
    \/ Call_getFullHierarchy
    \/ Call_getDirectChildren
    \/ Call_getSiblings
    \/ Call_getAllDescendants
    \/ Call_getByCodeL
    \/ Call_getHierarchyL
    \/ Call_getFullHierarchyL
    \/ Call_getDirectChildrenL
    \/ Call_getSiblingsL
    \/ Call_getAllDescendantsL
    \/ Start_getHierarchy
    \/ Step_getHierarchy
    \/ Start_getFullHierarchy
    \/ Step_getFullHierarchy
    \/ Start_getAllDescendants
    \/ Step_getAllDescendants
    \/ Start_getAllDescendantsL
    \/ Step_getAllDescendantsL
    \/ Call_validateParentChildRelationship
    \/ Call_validateParentChildRelationshipL
    \/ Call_validateHierarchyIntegrity
    \/ Call_validateHierarchyIntegrityL
    \/ Start_validateHierarchyIntegrity
    \/ Step_validateHierarchyIntegrity

Spec == Init /\ [][Next]_vars

----------------------------------------------------------------------------
(* Fuzzy search.  A string is the sequence of its characters; toLowerCase  *)
(* and trim are computed character by character over the alphabet of the   *)
(* names and queries below.                                                *)

UpperCase == <<"A", "B", "C", "D", "G", "K", "N", "R", "S", "V", "W", "X">>

LowerCase == <<"a", "b", "c", "d", "g", "k", "n", "r", "s", "v", "w", "x">>

toLowerCaseChar(c) ==
    IF \E i \in 1..Len(UpperCase) : UpperCase[i] = c
    THEN LowerCase[CHOOSE i \in 1..Len(UpperCase) : UpperCase[i] = c]
    ELSE c

toLowerCase(str) == [i \in 1..Len(str) |-> toLowerCaseChar(str[i])]

toUpperCaseChar(c) ==
    IF \E i \in 1..Len(LowerCase) : LowerCase[i] = c
    THEN UpperCase[CHOOSE i \in 1..Len(LowerCase) : LowerCase[i] = c]
    ELSE c

toUpperCase(str) == [i \in 1..Len(str) |-> toUpperCaseChar(str[i])]

\* String.prototype.startsWith and includes.
startsWith(str, searchString) ==
    /\ Len(searchString) <= Len(str)
    /\ SubSeq(str, 1, Len(searchString)) = searchString

includes(str, searchString) ==
    \E k \in 0..(Len(str) - Len(searchString)) :
       SubSeq(str, k + 1, k + Len(searchString)) = searchString

\* The characters of the segments the codes of the search datasets are made
\* of, and a code as the string the data holds: its segments joined by "-".
SegmentChars ==
    [seg \in {"RW", "D", "S", "C", "V", "01", "02", "001", "0001", "00001",
              "KG", "GAS", "NYA", "BUM", "KIN", "AKA", "XX", "YYY", "kg", "K1", "",
              "03"} |->
       CASE seg = "RW" -> <<"R", "W">>
         [] seg = "D" -> <<"D">>
         [] seg = "S" -> <<"S">>
         [] seg = "C" -> <<"C">>
         [] seg = "V" -> <<"V">>
         [] seg = "01" -> <<"0", "1">>
         [] seg = "02" -> <<"0", "2">>
         [] seg = "001" -> <<"0", "0", "1">>
         [] seg = "0001" -> <<"0", "0", "0", "1">>
         [] seg = "00001" -> <<"0", "0", "0", "0", "1">>
         [] seg = "KG" -> <<"K", "G">>
         [] seg = "GAS" -> <<"G", "A", "S">>
         [] seg = "NYA" -> <<"N", "Y", "A">>
         [] seg = "BUM" -> <<"B", "U", "M">>
         [] seg = "KIN" -> <<"K", "I", "N">>
         [] seg = "AKA" -> <<"A", "K", "A">>
         [] seg = "XX" -> <<"X", "X">>
         [] seg = "YYY" -> <<"Y", "Y", "Y">>
         [] seg = "kg" -> <<"k", "g">>
         [] seg = "K1" -> <<"K", "1">>
         [] seg = "" -> <<>>
         [] seg = "03" -> <<"0", "3">>]

RECURSIVE CodeString(_)
CodeString(code) ==
    IF code = <<>> THEN <<>>
    ELSE IF Len(code) = 1 THEN SegmentChars[code[1]]
    ELSE SegmentChars[code[1]] \o <<"-">> \o CodeString(Tail(code))

WhiteSpace == {" "}

RECURSIVE trimStart(_)
trimStart(str) ==
    IF str # <<>> /\ Head(str) \in WhiteSpace THEN trimStart(Tail(str)) ELSE str

RECURSIVE trimEnd(_)
trimEnd(str) ==
    IF str # <<>> /\ str[Len(str)] \in WhiteSpace
    THEN trimEnd(SubSeq(str, 1, Len(str) - 1))
    ELSE str

trim(str) == trimEnd(trimStart(str))

\* A minimum that leaves the substitution out.
Min3_withoutSubstitution(a, b, c) == IF a <= b THEN a ELSE b

Min3(a, b, c) ==
    IF a <= b THEN (IF a <= c THEN a ELSE c) ELSE (IF b <= c THEN b ELSE c)

Max2(a, b) == IF a >= b THEN a ELSE b

\* Row j of the matrix, filled from column 1 on; row[i + 1] is matrix[j][i].
RECURSIVE FillRow(_, _, _, _, _)
FillRow(str1, str2, j, prev, row) ==
    LET i == Len(row) IN
    IF i > Len(str1) THEN row
    ELSE LET indicator == IF str1[i] = str2[j] THEN 0 ELSE 1 IN
         FillRow(str1, str2, j, prev,
                 Append(row, Min3(row[i] + 1, prev[i + 1] + 1, prev[i] + indicator)))

RECURSIVE FillMatrix(_, _, _, _)
FillMatrix(str1, str2, j, prev) ==
    IF j > Len(str2) THEN prev
    ELSE FillMatrix(str1, str2, j + 1, FillRow(str1, str2, j, prev, <<j>>))

levenshteinDistance(str1, str2) ==
    FillMatrix(str1, str2, 1, [i \in 1..(Len(str1) + 1) |-> i - 1])[Len(str1) + 1]

\* 1 - distance / max as the fraction (max - distance) / max; 0 / 0 is NaN.
Score_flat(distance, queryLength, nameLength) ==
    [num |-> Max2(queryLength, nameLength) - (IF distance > 0 THEN 1 ELSE 0),
     den |-> Max2(queryLength, nameLength)]

Score(distance, queryLength, nameLength) ==
    [num |-> Max2(queryLength, nameLength) - distance,
     den |-> Max2(queryLength, nameLength)]

IsNaN(score) == score.den = 0

\* a.score > b.score
ScoreGreater(a, b) == ~IsNaN(a) /\ ~IsNaN(b) /\ a.num * b.den > b.num * a.den

\* Array.prototype.sort with (a, b) => b.score - a.score: stable, an entry
\* moves in front of the entries whose score is smaller.
RECURSIVE InsertByScore(_, _)
InsertByScore(sorted, e) ==
    IF sorted = <<>> THEN <<e>>
    ELSE IF ScoreGreater(e.score, Head(sorted).score) THEN <<e>> \o sorted
    ELSE <<Head(sorted)>> \o InsertByScore(Tail(sorted), e)

RECURSIVE SortByScore(_)
SortByScore(results) ==
    IF results = <<>> THEN <<>>
    ELSE InsertByScore(SortByScore(SubSeq(results, 1, Len(results) - 1)),
                       results[Len(results)])

\* Array.prototype.slice(0, end): a negative end counts from the end of arr.
slice(arr, end) ==
    LET final == IF end < 0 THEN Max2(Len(arr) + end, 0)
                 ELSE IF end < Len(arr) THEN end ELSE Len(arr) IN
    SubSeq(arr, 1, final)

\* The forEach over the units: the entries pushed to results, in order.
RECURSIVE Matches(_, _, _)
Matches(units, term, threshold) ==
    IF units = <<>> THEN <<>>
    ELSE LET unit == Head(units)
             distance == levenshteinDistance(term, toLowerCase(unit.name)) IN
         (IF distance <= threshold
          THEN << [unit |-> unit, score |-> Score(distance, Len(term), Len(unit.name))] >>
          ELSE <<>>)
         \o Matches(Tail(units), term, threshold)

fuzzySearchByName_unsorted(query, threshold, limit) ==
    slice(Matches(AllUnitsList, trim(toLowerCase(query)), threshold), limit)

fuzzySearchByName(query, threshold, limit) ==
    slice(SortByScore(Matches(AllUnitsList, trim(toLowerCase(query)), threshold)), limit)

fuzzySearchByNameL(query, threshold, limit) ==
    slice(SortByScore(Matches(MapValues(getAllUnitsMap), toLowerCase(query), threshold)),
          limit)

(* Search by name, slug and partial code, and the suggestions.             *)

searchByName(name) ==
    LET searchTerm == toLowerCase(name)
        Test(unit) == includes(toLowerCase(unit.name), searchTerm) IN
    SelectSeq(MapValues(allUnits), Test)

searchBySlug(slug) ==
    LET searchTerm == toLowerCase(slug)
        Test(unit) == includes(toLowerCase(unit.slug), searchTerm) IN
    SelectSeq(MapValues(allUnits), Test)

searchByNameL(name) ==
    LET searchTerm == toLowerCase(name)
        Test(unit) == includes(toLowerCase(unit.name), searchTerm) IN
    SelectSeq(MapValues(getAllUnitsMap), Test)

searchBySlugL(slug) ==
    LET searchTerm == toLowerCase(slug)
        Test(unit) == includes(toLowerCase(unit.slug), searchTerm) IN
    SelectSeq(MapValues(getAllUnitsMap), Test)

searchByPartialCode(partialCode, limit) ==
    LET normalizedCode == trim(toUpperCase(partialCode))
        Test(unit) == startsWith(CodeString(unit.code), normalizedCode) IN
    slice(SelectSeq(AllUnitsList, Test), limit)

searchByPartialCodeL(partialCode, limit) ==
    LET searchTerm == toUpperCase(partialCode)
        Test(unit) == includes(CodeString(unit.code), searchTerm) IN
    slice(SelectSeq(MapValues(getAllUnitsMap), Test), limit)

NoSuggestion == [type |-> "none"]

Suggestion(unit, type, matchField) ==
    [unit |-> unit, type |-> type, matchField |-> matchField]

\* The exact and partial branches of the chain in helpers.ts.
ExactOrPartial_nameContained(unit, normalizedQuery) ==
    IF includes(toLowerCase(unit.name), normalizedQuery)
    THEN Suggestion(unit, "exact", "name")
    ELSE IF toLowerCase(CodeString(unit.code)) = normalizedQuery
         THEN Suggestion(unit, "exact", "code")
    ELSE IF unit.slug = normalizedQuery THEN Suggestion(unit, "exact", "slug")
    ELSE IF includes(toLowerCase(CodeString(unit.code)), normalizedQuery)
         THEN Suggestion(unit, "partial", "code")
    ELSE IF includes(unit.slug, normalizedQuery) THEN Suggestion(unit, "partial", "slug")
    ELSE NoSuggestion

ExactOrPartial(unit, normalizedQuery) ==
    IF toLowerCase(unit.name) = normalizedQuery THEN Suggestion(unit, "exact", "name")
    ELSE IF toLowerCase(CodeString(unit.code)) = normalizedQuery
         THEN Suggestion(unit, "exact", "code")
    ELSE IF unit.slug = normalizedQuery THEN Suggestion(unit, "exact", "slug")
    ELSE IF includes(toLowerCase(unit.name), normalizedQuery)
         THEN Suggestion(unit, "partial", "name")
    ELSE IF includes(toLowerCase(CodeString(unit.code)), normalizedQuery)
         THEN Suggestion(unit, "partial", "code")
    ELSE IF includes(unit.slug, normalizedQuery) THEN Suggestion(unit, "partial", "slug")
    ELSE NoSuggestion

\* The same branches in part_002, where the slug is lower-cased.
ExactOrPartialL(unit, searchTerm) ==
    IF toLowerCase(unit.name) = searchTerm THEN Suggestion(unit, "exact", "name")
    ELSE IF toLowerCase(CodeString(unit.code)) = searchTerm
         THEN Suggestion(unit, "exact", "code")
    ELSE IF toLowerCase(unit.slug) = searchTerm THEN Suggestion(unit, "exact", "slug")
    ELSE IF includes(toLowerCase(unit.name), searchTerm)
         THEN Suggestion(unit, "partial", "name")
    ELSE IF includes(toLowerCase(CodeString(unit.code)), searchTerm)
         THEN Suggestion(unit, "partial", "code")
    ELSE IF includes(toLowerCase(unit.slug), searchTerm)
         THEN Suggestion(unit, "partial", "slug")
    ELSE NoSuggestion

FuzzyDistance == 3

RECURSIVE SuggestLoop_capped(_, _, _, _)
\* A loop that pushes nothing at all once limit suggestions are collected.
SuggestLoop_capped(units, normalizedQuery, limit, suggestions) ==
    IF units = <<>> THEN suggestions
    ELSE LET unit == Head(units)
             found == ExactOrPartial(unit, normalizedQuery)
             next ==
                IF Len(suggestions) >= limit THEN suggestions
                ELSE IF found # NoSuggestion THEN Append(suggestions, found)
                ELSE IF levenshteinDistance(normalizedQuery, toLowerCase(unit.name))
                           <= FuzzyDistance
                     THEN Append(suggestions, Suggestion(unit, "fuzzy", "name"))
                ELSE suggestions IN
         SuggestLoop_capped(Tail(units), normalizedQuery, limit, next)

\* allUnits.forEach of helpers.ts: a fuzzy match is pushed only while the
\* suggestions are fewer than limit.
RECURSIVE SuggestLoop(_, _, _, _)
SuggestLoop(units, normalizedQuery, limit, suggestions) ==
    IF units = <<>> THEN suggestions
    ELSE LET unit == Head(units)
             found == ExactOrPartial(unit, normalizedQuery)
             next ==
                IF found # NoSuggestion THEN Append(suggestions, found)
                ELSE IF /\ Len(suggestions) < limit
                        /\ levenshteinDistance(normalizedQuery, toLowerCase(unit.name))
                              <= FuzzyDistance
                     THEN Append(suggestions, Suggestion(unit, "fuzzy", "name"))
                ELSE suggestions IN
         SuggestLoop(Tail(units), normalizedQuery, limit, next)

RECURSIVE SuggestLoopL(_, _, _)
SuggestLoopL(units, searchTerm, suggestions) ==
    IF units = <<>> THEN suggestions
    ELSE LET unit == Head(units)
             found == ExactOrPartialL(unit, searchTerm)
             next ==
                IF found # NoSuggestion THEN Append(suggestions, found)
                ELSE IF levenshteinDistance(searchTerm, toLowerCase(unit.name))
                           <= FuzzyDistance
                     THEN Append(suggestions, Suggestion(unit, "fuzzy", "name"))
                ELSE suggestions IN
         SuggestLoopL(Tail(units), searchTerm, next)

typePriority(type) ==
    CASE type = "exact" -> 3
      [] type = "partial" -> 2
      [] type = "fuzzy" -> 1

\* The position of a letter in the collation the names are compared by.
CollationOrder ==
    <<" ", "-", "0", "1", "2", "a", "b", "c", "d", "e", "g", "i", "k", "n", "r", "s",
      "u", "v", "w", "x", "y">>

CollationKey(c) ==
    CHOOSE i \in 1..Len(CollationOrder) : CollationOrder[i] = toLowerCaseChar(c)

\* Lexicographic comparison of two sequences of numbers: -1, 0 or 1.
RECURSIVE CompareKeys(_, _)
CompareKeys(a, b) ==
    IF a = <<>> THEN (IF b = <<>> THEN 0 ELSE -1)
    ELSE IF b = <<>> THEN 1
    ELSE IF Head(a) < Head(b) THEN -1
    ELSE IF Head(a) > Head(b) THEN 1
    ELSE CompareKeys(Tail(a), Tail(b))

\* The letter e with acute accent as one character, U+00E9, and the
\* combining acute accent, U+0301, that follows a letter.
Precomposed == "U+00E9"

CombiningMark == "U+0301"

RECURSIVE Decompose(_)
\* Canonical decomposition: strings that are canonically equivalent have the
\* same decomposition, and localeCompare returns 0 for them.
Decompose(str) ==
    IF str = <<>> THEN <<>>
    ELSE IF Head(str) = Precomposed THEN <<"e", CombiningMark>> \o Decompose(Tail(str))
    ELSE <<Head(str)>> \o Decompose(Tail(str))

\* The letters of a decomposed string, and for every letter whether an
\* accent follows it.
Letters(d) == SelectSeq(d, LAMBDA c : c # CombiningMark)

Accents(d) ==
    LET at == SelectSeq([i \in 1..Len(d) |-> i], LAMBDA i : d[i] # CombiningMark) IN
    [k \in 1..Len(at) |->
        IF at[k] < Len(d) /\ d[at[k] + 1] = CombiningMark THEN 1 ELSE 0]

\* String.prototype.localeCompare: by letters first, then by accents, then a
\* lower-case letter before its upper-case letter.
localeCompare(a, b) ==
    LET da == Decompose(a)
        db == Decompose(b)
        primary == CompareKeys([i \in 1..Len(Letters(da)) |-> CollationKey(Letters(da)[i])],
                               [i \in 1..Len(Letters(db)) |-> CollationKey(Letters(db)[i])])
        secondary == CompareKeys(Accents(da), Accents(db)) IN
    IF primary # 0 THEN primary
    ELSE IF secondary # 0 THEN secondary
    ELSE CompareKeys([i \in 1..Len(Letters(da)) |->
                         IF toLowerCaseChar(Letters(da)[i]) = Letters(da)[i] THEN 0 ELSE 1],
                     [i \in 1..Len(Letters(db)) |->
                         IF toLowerCaseChar(Letters(db)[i]) = Letters(db)[i] THEN 0 ELSE 1])

CompareSuggestions(a, b) == typePriority(b.type) - typePriority(a.type)

\* A comparator without the tie-break on the name.
CompareSuggestionsL_byPriority(a, b) == typePriority(b.type) - typePriority(a.type)

CompareSuggestionsL(a, b) ==
    LET priorityDiff == typePriority(b.type) - typePriority(a.type) IN
    IF priorityDiff # 0 THEN priorityDiff
    ELSE localeCompare(a.unit.name, b.unit.name)

\* Array.prototype.sort is stable: an entry moves in front of the entries the
\* comparator puts after it.
RECURSIVE InsertSuggestion(_, _)
InsertSuggestion(sorted, e) ==
    IF sorted = <<>> THEN <<e>>
    ELSE IF CompareSuggestions(Head(sorted), e) > 0 THEN <<e>> \o sorted
    ELSE <<Head(sorted)>> \o InsertSuggestion(Tail(sorted), e)

RECURSIVE SortSuggestions(_)
SortSuggestions(suggestions) ==
    IF suggestions = <<>> THEN <<>>
    ELSE InsertSuggestion(SortSuggestions(SubSeq(suggestions, 1, Len(suggestions) - 1)),
                          suggestions[Len(suggestions)])

RECURSIVE InsertSuggestionL(_, _)
InsertSuggestionL(sorted, e) ==
    IF sorted = <<>> THEN <<e>>
    ELSE IF CompareSuggestionsL(Head(sorted), e) > 0 THEN <<e>> \o sorted
    ELSE <<Head(sorted)>> \o InsertSuggestionL(Tail(sorted), e)

RECURSIVE SortSuggestionsL(_)
SortSuggestionsL(suggestions) ==
    IF suggestions = <<>> THEN <<>>
    ELSE InsertSuggestionL(SortSuggestionsL(SubSeq(suggestions, 1, Len(suggestions) - 1)),
                           suggestions[Len(suggestions)])

getSuggestions_unsorted(query, limit) ==
    slice(SuggestLoop(AllUnitsList, trim(toLowerCase(query)), limit, <<>>), limit)

getSuggestions(query, limit) ==
    slice(SortSuggestions(SuggestLoop(AllUnitsList, trim(toLowerCase(query)), limit, <<>>)),
          limit)

getSuggestionsL(query, limit) ==
    slice(SortSuggestionsL(SuggestLoopL(MapValues(getAllUnitsMap), toLowerCase(query),
                                        <<>>)),
          limit)

(* Datasets and arguments of the search specification: the units of        *)
(* PrefixData, the province and the districts under every choice of names. *)

MaxThreshold == 2

MaxLimit == 3

MaxNegativeLimit == 1

Limits == (0 - MaxNegativeLimit)..MaxLimit

Names ==
    { <<"A">>, <<"K">>, <<"A","k">>, <<"K","a">>, <<"A","k","a">> }

Queries ==
    { <<>>, <<"a">>, <<"a"," ">>, <<"K">>, <<"a","k">>, <<" ","K","a">>,
      <<"a","k","a">>, <<"x">> }

SlugQueries == { <<>>, <<"k">>, <<"K","I">>, <<"x">> }

SuggestQueries ==
    Queries \cup { <<"k","i">>, <<"r","w","-","0","1">>, <<"R","W","-","D">>,
                   <<"x","x","x","x","x">> }

PartialCodes ==
    { <<>>, <<"r","w">>, <<"R","W","-","D">>, <<" ","R","W","-","0">>,
      <<"D","-","0">>, <<"R","W","-","S","-","0","0","1">>, <<"X","X">> }

Renamed(u, name) == [u EXCEPT !.name = name]

SearchDatasets ==
    { [PrefixData EXCEPT
         !.provinces = << Renamed(PrefixData.provinces[1], n1) >>,
         !.districts = << Renamed(PrefixData.districts[1], n2),
                          Renamed(PrefixData.districts[2], n3) >>] :
      n1 \in Names, n2 \in Names, n3 \in Names }

InitSearch ==
    /\ \E ds \in SearchDatasets : InitData(ds)
    /\ dataCache = <<>>
    /\ loaded = {}
    /\ allUnitsMap = NULL
    /\ call = NoCall
    /\ run = NoRun

Call_fuzzySearchByName ==
    /\ Idle
    /\ \E query \in Queries, threshold \in 0..MaxThreshold, limit \in Limits :
          Returns("fuzzySearchByName", "helpers",
                  [query |-> query, threshold |-> threshold, limit |-> limit],
                  fuzzySearchByName(query, threshold, limit))
    /\ UNCHANGED <<dataVars, cacheVars, allUnitsMap, run>>

Call_fuzzySearchByNameL ==
    /\ Idle
    /\ \E query \in Queries, threshold \in 0..MaxThreshold, limit \in Limits :
          Returns("fuzzySearchByName", "lazy",
                  [query |-> query, threshold |-> threshold, limit |-> limit],
                  fuzzySearchByNameL(query, threshold, limit))
    /\ allUnitsMap' = getAllUnitsMap
    /\ LoadsIndexData
    /\ UNCHANGED <<dataVars, run>>

Call_searchByName ==
    /\ Idle
    /\ \E name \in Queries :
          Returns("searchByName", "helpers", [query |-> name], searchByName(name))
    /\ UNCHANGED <<dataVars, cacheVars, allUnitsMap, run>>

Call_searchBySlug ==
    /\ Idle
    /\ \E slug \in SlugQueries :
          Returns("searchBySlug", "helpers", [query |-> slug], searchBySlug(slug))
    /\ UNCHANGED <<dataVars, cacheVars, allUnitsMap, run>>

Call_searchByPartialCode ==
    /\ Idle
    /\ \E partialCode \in PartialCodes, limit \in Limits :
          Returns("searchByPartialCode", "helpers",
                  [query |-> partialCode, limit |-> limit],
                  searchByPartialCode(partialCode, limit))
    /\ UNCHANGED <<dataVars, cacheVars, allUnitsMap, run>>

Call_getSuggestions ==
    /\ Idle
    /\ \E query \in SuggestQueries, limit \in Limits :
          Returns("getSuggestions", "helpers", [query |-> query, limit |-> limit],
                  getSuggestions(query, limit))
    /\ UNCHANGED <<dataVars, cacheVars, allUnitsMap, run>>

Call_searchByNameL ==
    /\ Idle
    /\ \E name \in Queries :
          Returns("searchByName", "lazy", [query |-> name], searchByNameL(name))
    /\ allUnitsMap' = getAllUnitsMap
    /\ LoadsIndexData
    /\ UNCHANGED <<dataVars, run>>

Call_searchBySlugL ==
    /\ Idle
    /\ \E slug \in SlugQueries :
          Returns("searchBySlug", "lazy", [query |-> slug], searchBySlugL(slug))
    /\ allUnitsMap' = getAllUnitsMap
    /\ LoadsIndexData
    /\ UNCHANGED <<dataVars, run>>

Call_searchByPartialCodeL ==
    /\ Idle
    /\ \E partialCode \in PartialCodes, limit \in Limits :
          Returns("searchByPartialCode", "lazy",
                  [query |-> partialCode, limit |-> limit],
                  searchByPartialCodeL(partialCode, limit))
    /\ allUnitsMap' = getAllUnitsMap
    /\ LoadsIndexData
    /\ UNCHANGED <<dataVars, run>>

Call_getSuggestionsL ==
    /\ Idle
    /\ \E query \in SuggestQueries, limit \in Limits :
          Returns("getSuggestions", "lazy", [query |-> query, limit |-> limit],
                  getSuggestionsL(query, limit))
    /\ allUnitsMap' = getAllUnitsMap
    /\ LoadsIndexData
    /\ UNCHANGED <<dataVars, run>>

NextSearch ==
    \/ Call_fuzzySearchByName
    \/ Call_fuzzySearchByNameL
    \/ Call_searchByName
    \/ Call_searchBySlug
    \/ Call_searchByPartialCode
    \/ Call_getSuggestions
    \/ Call_searchByNameL
    \/ Call_searchBySlugL
    \/ Call_searchByPartialCodeL
    \/ Call_getSuggestionsL

SpecSearch == InitSearch /\ [][NextSearch]_vars

----------------------------------------------------------------------------
(* Code format.  A code is held as its hyphen-separated segments, so a     *)
(* pattern over the string is a condition on the segments and on their      *)
(* characters.                                                              *)

\* [A-Z] and [A-Z0-9]
UpperAlpha ==
    {"A", "B", "C", "D", "E", "F", "G", "H", "I", "J", "K", "L", "M",
     "N", "O", "P", "Q", "R", "S", "T", "U", "V", "W", "X", "Y", "Z"}

UpperAlphaNum ==
    UpperAlpha \cup {"0", "1", "2", "3", "4", "5", "6", "7", "8", "9"}

\* A segment of exactly n characters of the class.
IsSegment(seg, class, n) ==
    /\ Len(SegmentChars[seg]) = n
    /\ \A i \in 1..n : SegmentChars[seg][i] \in class

\* [A-Z0-9]+
IsAlphaNumSegment(seg) ==
    /\ Len(SegmentChars[seg]) >= 1
    /\ \A i \in 1..Len(SegmentChars[seg]) : SegmentChars[seg][i] \in UpperAlphaNum

\* /^RW-[A-Z]{2}(-[A-Z]{3}){0,4}$/.test(code)
isValidCode(code) ==
    /\ Len(code) >= 2
    /\ Len(code) <= 6
    /\ SegmentChars[code[1]] = <<"R", "W">>
    /\ IsSegment(code[2], UpperAlpha, 2)
    /\ \A i \in 3..Len(code) : IsSegment(code[i], UpperAlpha, 3)

\* The minimum number of segments after RW in the pattern of a level.
patterns(level) ==
    CASE level = "province" -> 1
      [] level = "district" -> 2
      [] level = "sector"   -> 3
      [] level = "cell"     -> 4
      [] level = "village"  -> 5

\* /^RW(-[A-Z0-9]+){n,}$/.test(code)
PatternTest(n, code) ==
    /\ SegmentChars[code[1]] = <<"R", "W">>
    /\ Len(code) - 1 >= n
    /\ \A i \in 2..Len(code) : IsAlphaNumSegment(code[i])

validateCodeFormat(code) ==
    IF ~Truthy(code)
    THEN [isValid |-> FALSE, error |-> <<"Code must be a non-empty string">>,
          level |-> Undefined, format |-> Undefined]
    ELSE LET level == getCodeLevel(code) IN
         IF level = "undefined"
         THEN [isValid |-> FALSE,
               error |-> <<"Invalid code format - cannot determine level">>,
               level |-> Undefined, format |-> Undefined]
         ELSE IF ~PatternTest(patterns(level), code)
         THEN [isValid |-> FALSE,
               error |-> <<"Code '", code, "' does not match expected format for ", level>>,
               level |-> level, format |-> patterns(level)]
         ELSE [isValid |-> TRUE, error |-> Undefined, level |-> level,
               format |-> Undefined]

\* Codes that test the format: too many segments, lower case, a digit, an
\* empty segment, no RW, RW alone (examples/validation.ts:109-114,
\* helpers.test.ts:120-129).
FormatCodes ==
    {<<"RW", "KG", "GAS", "BUM", "KIN", "AKA", "AKA">>, <<"RW", "kg">>,
     <<"RW", "K1">>, <<"RW", "">>, <<"XX", "KG">>, <<"RW">>}

Call_isValidCode ==
    /\ Idle
    /\ \E code \in ArgCodes \cup FormatCodes :
        /\ Returns("isValidCode", "helpers", code, isValidCode(code))
        /\ UNCHANGED <<dataVars, cacheVars, allUnitsMap, run>>

Call_isValidCodeL ==
    /\ Idle
    /\ \E code \in ArgCodes \cup FormatCodes :
        /\ Returns("isValidCode", "lazy", code, isValidCodeL(code))
        /\ allUnitsMap' = getAllUnitsMap
        /\ LoadsIndexData
        /\ UNCHANGED <<dataVars, run>>

Call_validateCodeFormat ==
    /\ Idle
    /\ \E code \in ArgCodes \cup FormatCodes :
        /\ Returns("validateCodeFormat", "helpers", code, validateCodeFormat(code))
        /\ UNCHANGED <<dataVars, cacheVars, allUnitsMap, run>>

NextFormat ==
    \/ Call_isValidCode
    \/ Call_isValidCodeL
    \/ Call_validateCodeFormat

SpecFormat == Init /\ [][NextFormat]_vars

----------------------------------------------------------------------------
(* The lazily loaded implementation over a package whose data files can     *)
(* become unreadable and readable again between two calls.  Calls follow    *)
(* one another on the same module instance: the cache and the index are     *)
(* kept from call to call.                                                  *)

\* The outcome of a call that ends in an exception.
Thrown == [thrown |-> TRUE, value |-> Undefined]

\* The outcome of a call that returns v.
Returned(v) == [thrown |-> FALSE, value |-> v]

\* try { return [...get...Data()] } catch { console.warn(...); return [] }
getAllProvincesL == OrNothing(getProvincesData)

getAllDistrictsL == OrNothing(getDistrictsData)

getAllSectorsL == OrNothing(getSectorsData)

getAllCellsL == OrNothing(getCellsData)

getAllVillagesL == OrNothing(getVillagesData)

getByLevelL(level) ==
    CASE level = "province" -> getAllProvincesL
      [] level = "district" -> getAllDistrictsL
      [] level = "sector"   -> getAllSectorsL
      [] level = "cell"     -> getAllCellsL
      [] level = "village"  -> getAllVillagesL
      [] OTHER              -> <<>>

\* The file getByLevel(level) loads.
LevelFile(level) ==
    CASE level = "province" -> <<"provinces">>
      [] level = "district" -> <<"districts">>
      [] level = "sector"   -> <<"sectors">>
      [] level = "cell"     -> <<"cells">>
      [] level = "village"  -> <<"villages">>
      [] OTHER              -> <<>>

\* getDistrictsData().filter(...): no try/catch, the exception of the loader
\* leaves the function.
getDistrictsByProvinceL(provinceCode) ==
    IF getDistrictsData.throws THEN Thrown
    ELSE Returned(FilterByParent(getDistrictsData.value, provinceCode))

\* The five loads in their order; the first that throws ends the call.
AllLoad == \A i \in 1..Len(Filenames) : ~lazyLoadGzippedJson(dataCache, Filenames[i]).throws

getCountsL ==
    IF ~AllLoad THEN Thrown
    ELSE Returned(
         [provinces |-> Len(getProvincesData.value),
          districts |-> Len(getDistrictsData.value),
          sectors |-> Len(getSectorsData.value),
          cells |-> Len(getCellsData.value),
          villages |-> Len(getVillagesData.value),
          total |-> Len(getProvincesData.value) + Len(getDistrictsData.value)
                    + Len(getSectorsData.value) + Len(getCellsData.value)
                    + Len(getVillagesData.value)])

getSummaryL ==
    IF ~AllLoad THEN Thrown
    ELSE Returned(
         [provinces |-> Len(getProvincesData.value),
          districts |-> Len(getDistrictsData.value),
          sectors |-> Len(getSectorsData.value),
          cells |-> Len(getCellsData.value),
          villages |-> Len(getVillagesData.value)])

\* The data files that fail and recover.
Fallible == {paths("provinces")[1], paths("districts")[1]}

InitLazy ==
    /\ InitData(PrefixData)
    /\ dataCache = <<>>
    /\ loaded = {}
    /\ allUnitsMap = NULL
    /\ call = NoCall
    /\ run = NoRun

FileFails ==
    /\ \E p \in files \cap Fallible : files' = files \ {p}
    /\ UNCHANGED <<provincesData, districtsData, sectorsData, cellsData, villagesData,
                   cacheVars, allUnitsMap, call, run>>

FileRecovers ==
    /\ \E p \in Fallible \ files : files' = files \cup {p}
    /\ UNCHANGED <<provincesData, districtsData, sectorsData, cellsData, villagesData,
                   cacheVars, allUnitsMap, call, run>>

Lazy_clearDataCache ==
    /\ dataCache' = clearDataCache
    /\ loaded' = {}
    /\ Returns("clearDataCache", "lazy", <<>>, Returned(Undefined))
    /\ UNCHANGED <<dataVars, allUnitsMap, run>>

Lazy_getByLevel ==
    \E level \in {"province", "district", "sector", "cell", "village"} :
        /\ Returns("getByLevel", "lazy", level, Returned(getByLevelL(level)))
        /\ LoadsData(LevelFile(level))
        /\ UNCHANGED <<dataVars, allUnitsMap, run>>

Lazy_getDistrictsByProvince ==
    \E provinceCode \in {<<"RW", "01">>, UnknownCode} :
        /\ Returns("getDistrictsByProvince", "lazy", provinceCode,
                   getDistrictsByProvinceL(provinceCode))
        /\ LoadsData(<<"districts">>)
        /\ UNCHANGED <<dataVars, allUnitsMap, run>>

Lazy_getCounts ==
    /\ Returns("getCounts", "lazy", <<>>, getCountsL)
    /\ LoadsData(UpToFirstThrow(Filenames))
    /\ UNCHANGED <<dataVars, allUnitsMap, run>>

Lazy_getSummary ==
    /\ Returns("getSummary", "lazy", <<>>, getSummaryL)
    /\ LoadsData(UpToFirstThrow(Filenames))
    /\ UNCHANGED <<dataVars, allUnitsMap, run>>

Lazy_getByCode ==
    \E code \in {<<"RW", "D", "01">>, UnknownCode} :
        /\ Returns("getByCode", "lazy", code, Returned(getByCodeL(code)))
        /\ allUnitsMap' = getAllUnitsMap
        /\ LoadsIndexData
        /\ UNCHANGED <<dataVars, run>>

Lazy_searchByName ==
    \E name \in {<<"k">>} :
        /\ Returns("searchByName", "lazy", name, Returned(searchByNameL(name)))
        /\ allUnitsMap' = getAllUnitsMap
        /\ LoadsIndexData
        /\ UNCHANGED <<dataVars, run>>

NextLazy ==
    \/ FileFails
    \/ FileRecovers
    \/ Lazy_clearDataCache
    \/ Lazy_getByLevel
    \/ Lazy_getDistrictsByProvince
    \/ Lazy_getCounts
    \/ Lazy_getSummary
    \/ Lazy_getByCode
    \/ Lazy_searchByName

SpecLazy == InitLazy /\ [][NextLazy]_vars

----------------------------------------------------------------------------
(* The loader on its own: any sequence of its four exported operations,    *)
(* while data files disappear and come back.  "wards" names a data file    *)
(* the package never had.                                                   *)

MaxPreload == 2

LoaderNames == {"provinces", "districts", "wards"}

\* The files that come and go: a compressed file under dist/data and the
\* uncompressed fallback under src/data.
LoaderPaths == {paths("provinces")[1], paths("provinces")[4], paths("districts")[1]}

\* The filename lists preloadData is called with.
PreloadLists ==
    UNION {[1..n -> LoaderNames] : n \in 0..MaxPreload}

FileRemoved ==
    /\ \E p \in files \cap LoaderPaths : files' = files \ {p}
    /\ UNCHANGED <<provincesData, districtsData, sectorsData, cellsData, villagesData,
                   cacheVars, allUnitsMap, call, run>>

FileRestored ==
    /\ \E p \in LoaderPaths \ files : files' = files \cup {p}
    /\ UNCHANGED <<provincesData, districtsData, sectorsData, cellsData, villagesData,
                   cacheVars, allUnitsMap, call, run>>

Loader_lazyLoadGzippedJson ==
    \E filename \in LoaderNames :
        LET r == lazyLoadGzippedJson(dataCache, filename) IN
        /\ dataCache' = r.cache
        /\ loaded' = loaded \cup LoadedFrom(r.read)
        /\ Returns("lazyLoadGzippedJson", "loader", filename,
                   [thrown |-> r.throws, value |-> r.value, read |-> r.read,
                    before |-> dataCache, disk |-> files])
        /\ UNCHANGED <<dataVars, allUnitsMap, run>>

Loader_preloadData ==
    \E filenames \in PreloadLists :
        LET r == preloadData(dataCache, filenames) IN
        /\ dataCache' = r.cache
        /\ loaded' = loaded \cup LoadedFrom(r.read)
        /\ Returns("preloadData", "loader", filenames,
                   [thrown |-> FALSE, value |-> Undefined, read |-> r.read,
                    before |-> dataCache, disk |-> files])
        /\ UNCHANGED <<dataVars, allUnitsMap, run>>

Loader_clearDataCache ==
    /\ dataCache' = clearDataCache
    /\ loaded' = {}
    /\ Returns("clearDataCache", "loader", <<>>,
               [thrown |-> FALSE, value |-> Undefined, read |-> <<>>,
                before |-> dataCache, disk |-> files])
    /\ UNCHANGED <<dataVars, allUnitsMap, run>>

Loader_getCacheStats ==
    /\ Returns("getCacheStats", "loader", <<>>,
               [thrown |-> FALSE, value |-> getCacheStats, read |-> <<>>,
                before |-> dataCache, disk |-> files])
    /\ UNCHANGED <<dataVars, cacheVars, allUnitsMap, run>>

NextLoader ==
    \/ FileRemoved
    \/ FileRestored
    \/ Loader_lazyLoadGzippedJson
    \/ Loader_preloadData
    \/ Loader_clearDataCache
    \/ Loader_getCacheStats

SpecLoader == InitLazy /\ [][NextLoader]_vars

----------------------------------------------------------------------------
(* The edit distance on its own: every pair of strings over a two-letter   *)
(* alphabet up to a length.                                                 *)

MaxStringLength == 3

Alphabet == {"a", "b"}

Strings == UNION {[1..k -> Alphabet] : k \in 0..MaxStringLength}

Call_levenshteinDistance ==
    /\ Idle
    /\ \E str1, str2 \in Strings :
        /\ Returns("levenshteinDistance", "helpers", <<str1, str2>>,
                   levenshteinDistance(str1, str2))
        /\ UNCHANGED <<dataVars, cacheVars, allUnitsMap, run>>

NextDistance == Call_levenshteinDistance

SpecDistance == InitLazy /\ [][NextDistance]_vars

----------------------------------------------------------------------------
(* Suggestions over datasets with three districts under every choice of    *)
(* their names, among them a name in its precomposed and in its decomposed  *)
(* spelling.                                                                *)

OrderNames ==
    { <<"K","a">>, <<"k","a">>, <<"K", Precomposed>>, <<"K", "e", CombiningMark>> }

OrderDatasets ==
    { [PrefixData EXCEPT
         !.districts = << Renamed(PrefixData.districts[1], n1),
                          Renamed(PrefixData.districts[2], n2),
                          Unit(<<"RW","D","03">>, n3, <<"r","u">>, <<"RW","01">>) >>] :
      n1 \in OrderNames, n2 \in OrderNames, n3 \in OrderNames }

InitOrder ==
    /\ \E ds \in OrderDatasets : InitData(ds)
    /\ dataCache = <<>>
    /\ loaded = {}
    /\ allUnitsMap = NULL
    /\ call = NoCall
    /\ run = NoRun

NextOrder == Call_getSuggestionsL

SpecOrder == InitOrder /\ [][NextOrder]_vars

----------------------------------------------------------------------------
(* The data-model invariants of a dataset, stated on the collections.      *)

UnitSet == Range(AllUnitsList)

DistinctCodes ==
    \A i, j \in 1..Len(AllUnitsList) :
        i # j => AllUnitsList[i].code # AllUnitsList[j].code

DistinctSlugs ==
    \A i, j \in 1..Len(AllUnitsList) :
        i # j => AllUnitsList[i].slug # AllUnitsList[j].slug

\* The units that carry a given code.
UnitsWithCode(code) == {u \in UnitSet : u.code = code}

IsCodeOfUnit(code) == UnitsWithCode(code) # {}

LevelNames == <<"province", "district", "sector", "cell", "village">>

Depth(level) ==
    CASE level = "province" -> 1
      [] level = "district" -> 2
      [] level = "sector"   -> 3
      [] level = "cell"     -> 4
      [] level = "village"  -> 5
      [] OTHER              -> 0

\* The levels of the collections a unit is stored in.
LevelsOf(u) == {l \in Range(LevelNames) : u \in Range(getByLevel(l))}

RECURSIVE CodesAbove(_, _)
\* The codes reached from a code by 1..n parentCode links between units.
CodesAbove(code, n) ==
    IF n = 0 THEN {}
    ELSE LET up == {u.parentCode : u \in {x \in UnitsWithCode(code) :
                                            /\ x.parentCode # NoCode
                                            /\ IsCodeOfUnit(x.parentCode)}} IN
         up \cup UNION {CodesAbove(c, n - 1) : c \in up}

NoParentCycles ==
    \A u \in UnitSet : u.code \notin CodesAbove(u.code, Len(AllUnitsList))

\* Invariant 3: the parent of a unit below province level is stored one
\* level up.
ParentOneLevelUp ==
    \A u \in UnitSet : \A l \in LevelsOf(u) :
        IF l = "province" THEN u.parentCode = NoCode
        ELSE /\ u.parentCode # NoCode
             /\ \E p \in UnitsWithCode(u.parentCode) :
                    \E lp \in LevelsOf(p) : Depth(lp) = Depth(l) - 1

WellFormed ==
    /\ DistinctCodes
    /\ DistinctSlugs
    /\ ParentOneLevelUp
    /\ NoParentCycles

IsCall(op, impl) == call # NoCall /\ call.op = op /\ call.impl = impl

----------------------------------------------------------------------------
(* Claims about the index and the navigator, checked under Spec.           *)

\* C1: in a dataset whose codes are pairwise distinct, getByCode(u.code)
\* returns u itself, for every unit u of the five collections.
C1_LookupRoundTrip ==
    (IsCall("getByCode", "helpers") /\ DistinctCodes) =>
        \A u \in UnitSet : u.code = call.arg => call.result = u

C1_Witness ==
    /\ IsCall("getByCode", "helpers")
    /\ DistinctCodes
    /\ \E u \in Range(villagesData) : u.code = call.arg /\ call.result = u

\* C2: for every dataset and every code that belongs to no unit, getByCode
\* returns undefined and getHierarchy, getFullHierarchy, getDirectChildren,
\* getSiblings and getAllDescendants return an empty list, in both
\* implementations.
C2_UnknownCodeYieldsNothing ==
    (/\ call # NoCall
     /\ call.op \in {"getByCode", "getHierarchy", "getFullHierarchy", "getDirectChildren",
                     "getSiblings", "getAllDescendants"}
     /\ ~IsCodeOfUnit(call.arg)) =>
        IF call.op = "getByCode" THEN call.result = Undefined
        ELSE call.result = <<>>

C4_ChainLengthIsDepth ==
    (IsCall("getHierarchy", "helpers") /\ WellFormed /\ IsCodeOfUnit(call.arg)) =>
        Len(call.result) = Depth(getCodeLevel(call.arg))

\* C5: every unit u whose parentCode resolves to a unit p is an element of
\* getDirectChildren(p.code), and p is an element of getHierarchy(u.code);
\* stated on the datasets that satisfy the data-model invariants.
C5_ChildAndParentAgree ==
    WellFormed =>
        \A u \in UnitSet :
            LET p == getByCode(u.parentCode) IN
            (u.parentCode # NoCode /\ p # Undefined) =>
                /\ (IsCall("getDirectChildren", "helpers") /\ call.arg = p.code)
                      => u \in Range(call.result)
                /\ (IsCall("getHierarchy", "helpers") /\ call.arg = u.code)
                      => p \in Range(call.result)

\* C7: for the code c of an existing unit in a dataset without parent cycles,
\* getAllDescendants(c) contains exactly the units d, other than the unit c,
\* whose getHierarchy(d.code) contains the unit with code c, each exactly
\* once; stated on the datasets that satisfy the data-model invariants.
C7_DescendantsAreTheUnitsBelow ==
    (IsCall("getAllDescendants", "helpers") /\ WellFormed
        /\ getByCode(call.arg) # Undefined) =>
        LET c == getByCode(call.arg) IN
        /\ Range(call.result) =
              {d \in UnitSet : d # c /\ c \in Range(getHierarchy(d.code))}
        /\ \A d \in Range(call.result) : Count(call.result, d) = 1

\* arr with the unit u taken out.
Without(arr, u) == SelectSeq(arr, LAMBDA x : x # u)

StoredBelowParentCode(u) ==
    childLevelMap(getCodeLevel(u.parentCode)) \in LevelsOf(u)

C6_EveryWalkReturns ==
    run.op \in {"getHierarchy", "getFullHierarchy", "getAllDescendants",
                "getAllDescendantsL"}
    => run.pc # "exhausted"

\* The loops, run step by step, return what the whole calls return, and
\* exhaust the engine exactly when the whole call does not return.
StepsAgreeWithCalls ==
    /\ (run.op = "getHierarchy" /\ run.pc = "done") =>
          getHierarchyRun(run.arg) = [returned |-> TRUE, value |-> run.hierarchy]
    /\ (run.op = "getHierarchy" /\ run.pc = "exhausted") =>
          ~getHierarchyRun(run.arg).returned
    /\ (run.op = "getAllDescendants" /\ run.pc = "done") =>
          getAllDescendantsRun(run.arg) = [returned |-> TRUE, value |-> run.descendants]
    /\ (run.op = "getAllDescendants" /\ run.pc = "exhausted") =>
          ~getAllDescendantsRun(run.arg).returned
    /\ (run.op = "getAllDescendantsL" /\ run.pc = "done") =>
          getAllDescendantsRunL(run.arg) = [returned |-> TRUE, value |-> run.descendants]
    /\ (run.op = "getAllDescendantsL" /\ run.pc = "exhausted") =>
          ~getAllDescendantsRunL(run.arg).returned

\* The distance the search computes between a term and the name of a unit.
DistanceTo(term, unit) == levenshteinDistance(term, toLowerCase(unit.name))

ResultUnits == {call.result[i].unit : i \in 1..Len(call.result)}

\* The properties of C9 for a call of fuzzySearchByName of helpers.ts, with
\* term the string the distances are measured from.
TopMatches(term) ==
    LET t == call.arg.threshold
        result == call.result IN
    /\ \A i \in 1..Len(result) : DistanceTo(term, result[i].unit) <= t
    /\ \A i \in 1..(Len(result) - 1) :
          ~ScoreGreater(result[i + 1].score, result[i].score)
    /\ Len(result) <= call.arg.limit
    /\ \A u \in UnitSet \ ResultUnits :
          DistanceTo(term, u) <= t =>
             \A i \in 1..Len(result) :
                ~ScoreGreater(Score(DistanceTo(term, u), Len(term), Len(u.name)),
                              result[i].score)

\* C9 as stated: fuzzySearchByName(q, t, limit) returns only units whose
\* lower-cased name is within distance t of the lower-cased query, ordered by
\* non-increasing score, at most limit of them, and no unit within distance t
\* that is left out has a strictly higher score than a returned one.
C9_TopMatchesOfLowerCasedQuery ==
    (IsCall("fuzzySearchByName", "helpers") /\ call.arg.limit >= 0) =>
       TopMatches(toLowerCase(call.arg.query))

\* C9 (amended): the same with the distances measured from the lower-cased
\* and trimmed query.
C9_TopMatchesOfTrimmedQuery ==
    (IsCall("fuzzySearchByName", "helpers") /\ call.arg.limit >= 0) =>
       TopMatches(trim(toLowerCase(call.arg.query)))

\* A query with white space at its end, a unit left out by the limit and two
\* returned units of different scores.
C9_Witness ==
    /\ IsCall("fuzzySearchByName", "helpers")
    /\ trim(toLowerCase(call.arg.query)) # toLowerCase(call.arg.query)
    /\ Len(call.result) = call.arg.limit
    /\ Len(call.result) >= 2
    /\ ScoreGreater(call.result[1].score, call.result[2].score)
    /\ \E u \in UnitSet \ ResultUnits :
          DistanceTo(trim(toLowerCase(call.arg.query)), u) <= call.arg.threshold

\* The entries of a result as pairs to compare: the distance from the term
\* of the call and the greater of the two lengths.
TermOfCall ==
    IF call.impl = "helpers" THEN trim(toLowerCase(call.arg.query))
    ELSE toLowerCase(call.arg.query)

MaxLength(unit) == Max2(Len(TermOfCall), Len(unit.name))

\* C10 as stated: for a fixed query and two unit names A and B, if the edit
\* distance from the query to A is smaller than the distance to B, the score
\* fuzzySearchByName gives A is strictly greater than the score it gives B.
C10_CloserScoresHigher ==
    call.op = "fuzzySearchByName" =>
       \A i, j \in 1..Len(call.result) :
          DistanceTo(TermOfCall, call.result[i].unit)
             < DistanceTo(TermOfCall, call.result[j].unit)
          => ScoreGreater(call.result[i].score, call.result[j].score)

\* C10 (amended): the same for A and B such that max(len(query), len(A)) is
\* at least max(len(query), len(B)).
C10_CloserAndNotShorterScoresHigher ==
    call.op = "fuzzySearchByName" =>
       \A i, j \in 1..Len(call.result) :
          (/\ DistanceTo(TermOfCall, call.result[i].unit)
                 < DistanceTo(TermOfCall, call.result[j].unit)
           /\ MaxLength(call.result[i].unit) >= MaxLength(call.result[j].unit))
          => ScoreGreater(call.result[i].score, call.result[j].score)

\* Two returned units, the closer one with the strictly greater length.
C10_Witness ==
    /\ call.op = "fuzzySearchByName"
    /\ \E i, j \in 1..Len(call.result) :
          /\ DistanceTo(TermOfCall, call.result[i].unit)
                < DistanceTo(TermOfCall, call.result[j].unit)
          /\ DistanceTo(TermOfCall, call.result[i].unit) > 0
          /\ MaxLength(call.result[i].unit) > MaxLength(call.result[j].unit)

\* C11: fuzzySearchByName, searchByPartialCode and getSuggestions return an
\* empty list whenever limit <= 0, for limit = 0 and for every negative
\* limit, whatever the query matches.
C11_NoResultWithoutLimit ==
    (/\ call # NoCall
     /\ call.op \in {"fuzzySearchByName", "searchByPartialCode", "getSuggestions"}
     /\ call.impl = "helpers"
     /\ call.arg.limit <= 0)
    => call.result = <<>>

\* The query of the call matches no unit: no name or slug contains it, no
\* name is within the threshold of it, no suggestion can be made for it.
MatchesNoUnit ==
    LET lowered == toLowerCase(call.arg.query)
        normalized == trim(lowered) IN
    CASE call.op = "searchByName" ->
            \A u \in UnitSet : ~includes(toLowerCase(u.name), lowered)
      [] call.op = "searchBySlug" ->
            \A u \in UnitSet : ~includes(toLowerCase(u.slug), lowered)
      [] call.op = "fuzzySearchByName" ->
            \A u \in UnitSet : DistanceTo(normalized, u) > call.arg.threshold
      [] call.op = "getSuggestions" ->
            \A u \in UnitSet :
               /\ ~includes(toLowerCase(u.name), normalized)
               /\ ~includes(toLowerCase(CodeString(u.code)), normalized)
               /\ ~includes(toLowerCase(u.slug), normalized)
               /\ DistanceTo(normalized, u) > FuzzyDistance

\* C12: searchByName, searchBySlug, fuzzySearchByName and getSuggestions
\* return an empty list when the query is the empty string, and when the
\* query matches no unit.
C12_NoResultForEmptyOrUnmatchedQuery ==
    (/\ call # NoCall
     /\ call.op \in {"searchByName", "searchBySlug", "fuzzySearchByName", "getSuggestions"}
     /\ call.impl = "helpers"
     /\ call.op \in {"fuzzySearchByName", "getSuggestions"} => call.arg.limit >= 1
     /\ call.arg.query = <<>> \/ MatchesNoUnit)
    => call.result = <<>>

\* The part of C12 about queries that match no unit.
C12_NoResultForUnmatchedQuery ==
    (/\ call # NoCall
     /\ call.op \in {"searchByName", "searchBySlug", "fuzzySearchByName", "getSuggestions"}
     /\ call.impl = "helpers"
     /\ MatchesNoUnit)
    => call.result = <<>>

\* The units whose code starts with p upper-cased, in the order provinces,
\* districts, sectors, cells, villages.
UnitsWithPrefix(p) ==
    LET Test(unit) == startsWith(CodeString(unit.code), toUpperCase(p)) IN
    SelectSeq(getAllProvinces \o getAllDistricts \o getAllSectors \o getAllCells
              \o getAllVillages, Test)

\* C13: for limit >= 0, every unit returned by searchByPartialCode(p, limit)
\* has a code that starts with p upper-cased, and the result is the first
\* min(limit, number of such units) of them in the order provinces,
\* districts, sectors, cells, villages, in helpers.ts and in part_002.
C13_PrefixMatchesInOrder ==
    (/\ call # NoCall
     /\ call.op = "searchByPartialCode"
     /\ call.arg.limit >= 0)
    => LET matching == UnitsWithPrefix(call.arg.query)
           n == IF call.arg.limit < Len(matching) THEN call.arg.limit ELSE Len(matching) IN
       call.result = SubSeq(matching, 1, n)

\* The classification of C14: the type and the field a unit matches the
\* normalized query with, "none" when it matches in no way.
MatchesExactly(field, term) == toLowerCase(field) = term

Contains(field, term) == includes(toLowerCase(field), term)

FirstField(name, code, slug) ==
    IF name THEN "name" ELSE IF code THEN "code" ELSE "slug"

Classification(u, term) ==
    LET code == CodeString(u.code) IN
    IF MatchesExactly(u.name, term) \/ MatchesExactly(code, term)
       \/ MatchesExactly(u.slug, term)
    THEN [type |-> "exact",
          matchField |-> FirstField(MatchesExactly(u.name, term),
                                    MatchesExactly(code, term),
                                    MatchesExactly(u.slug, term))]
    ELSE IF Contains(u.name, term) \/ Contains(code, term) \/ Contains(u.slug, term)
    THEN [type |-> "partial",
          matchField |-> FirstField(Contains(u.name, term), Contains(code, term),
                                    Contains(u.slug, term))]
    ELSE IF DistanceTo(term, u) <= 3
    THEN [type |-> "fuzzy", matchField |-> "name"]
    ELSE [type |-> "none", matchField |-> "none"]

C15_SuggestionsRankedByType ==
    (call # NoCall /\ call.op = "getSuggestions" /\ call.arg.limit >= 1) =>
       /\ \A i, j \in 1..Len(call.result) :
             i < j => typePriority(call.result[i].type) >= typePriority(call.result[j].type)
       /\ Len(call.result) <= call.arg.limit
       /\ \A i \in 1..Len(call.result) :
             \A u \in UnitSet :
                LET type == Classification(u, TermOfCall).type IN
                (type # "none" /\ typePriority(type) > typePriority(call.result[i].type))
                   => u \in ResultUnits

\* A full result of two types that leaves a matching unit out.
C15_Witness ==
    /\ call # NoCall
    /\ call.op = "getSuggestions"
    /\ call.arg.limit >= 2
    /\ Len(call.result) = call.arg.limit
    /\ call.result[1].type # call.result[Len(call.result)].type
    /\ \E u \in UnitSet \ ResultUnits : Classification(u, TermOfCall).type # "none"

\* The unit p is stored exactly one level above the unit u.
OneLevelAbove(p, u) ==
    \E lp \in LevelsOf(p), lu \in LevelsOf(u) : Depth(lu) = Depth(lp) + 1

\* C16: in each implementation of validateParentChildRelationship, isValid
\* is true iff both codes resolve to units, the child unit's parentCode
\* equals the given parentCode, and the child's level is exactly one below
\* the parent's in the ladder province, district, sector, cell, village.
C16_ValidIffParentOneLevelUp ==
    (call # NoCall /\ call.op = "validateParentChildRelationship") =>
       LET parent == getByCode(call.arg.parentCode)
           child == getByCode(call.arg.childCode) IN
       call.result.isValid <=>
          /\ parent # Undefined
          /\ child # Undefined
          /\ child.parentCode = call.arg.parentCode
          /\ OneLevelAbove(parent, child)

\* C17: on every dataset that satisfies the four data-model invariants,
\* validateHierarchyIntegrity returns isValid = true, an empty issue list
\* and summary.totalUnits equal to the sum of the sizes of the collections.
C17_WellFormedDataIsValid ==
    (IsCall("validateHierarchyIntegrity", "helpers") /\ WellFormed) =>
       /\ call.result.isValid
       /\ call.result.issues = <<>>
       /\ call.result.summary.totalUnits =
             Len(provincesData) + Len(districtsData) + Len(sectorsData)
             + Len(cellsData) + Len(villagesData)

\* C18: if validateHierarchyIntegrity returns isValid = true, the dataset
\* satisfies all four data-model invariants.
C18_ValidDataIsWellFormed ==
    (call # NoCall /\ call.op = "validateHierarchyIntegrity" /\ call.result.isValid)
    => WellFormed

\* The districts whose parentCode names a code no unit has.
OrphanDistricts ==
    {d \in Range(districtsData) : Truthy(d.parentCode) /\ ~IsCodeOfUnit(d.parentCode)}

ParentOneLevelUpOf(u) ==
    \A l \in LevelsOf(u) :
        IF l = "province" THEN u.parentCode = NoCode
        ELSE /\ u.parentCode # NoCode
             /\ \E p \in UnitsWithCode(u.parentCode) : OneLevelAbove(p, u)

WellFormedButOneOrphanDistrict ==
    /\ Cardinality(OrphanDistricts) = 1
    /\ DistinctCodes
    /\ DistinctSlugs
    /\ NoParentCycles
    /\ \A u \in UnitSet \ OrphanDistricts : ParentOneLevelUpOf(u)

\* C19: in a dataset that is well-formed except that one district's
\* parentCode names a code no unit has, validateHierarchyIntegrity returns
\* isValid = false, its issue list contains exactly one issue of type
\* orphaned, that issue carries the district's code, and
\* summary.orphanedUnits is 1.
C19_OneOrphanIssue ==
    (/\ call # NoCall
     /\ call.op = "validateHierarchyIntegrity"
     /\ WellFormedButOneOrphanDistrict)
    => LET issues == call.result.issues
           orphaned == {i \in 1..Len(issues) : issues[i].type = "orphaned"} IN
       /\ ~call.result.isValid
       /\ Cardinality(orphaned) = 1
       /\ \A i \in orphaned : \A d \in OrphanDistricts : issues[i].code = d.code
       /\ call.result.summary.orphanedUnits = 1

C19_Witness ==
    /\ IsCall("validateHierarchyIntegrity", "helpers")
    /\ WellFormedButOneOrphanDistrict
    /\ \E i \in 1..Len(call.result.issues) : call.result.issues[i].type = "orphaned"

\* C20: when following parentCode links upward from a unit comes back to a
\* code already visited, validateHierarchyIntegrity completes and its issue
\* list contains an issue of type circular_reference for that unit.
C20_CyclesAreReported ==
    run.op = "validateHierarchyIntegrity" =>
       /\ run.pc # "exhausted"
       /\ run.pc = "done" =>
             \A u \in UnitSet :
                u.code \in CodesAbove(u.code, Len(AllUnitsList)) =>
                   \E i \in 1..Len(run.value.issues) :
                      /\ run.value.issues[i].type = "circular_reference"
                      /\ run.value.issues[i].code = u.code

\* Run step by step, validateHierarchyIntegrity returns what the whole call
\* returns, and exhausts the engine exactly when the call does not return.
ValidatorStepsAgreeWithCall ==
    run.op = "validateHierarchyIntegrity" =>
       /\ run.pc = "done" =>
             validateHierarchyIntegrityRun = [returned |-> TRUE, value |-> run.value]
       /\ run.pc = "exhausted" => ~validateHierarchyIntegrityRun.returned

\* The keys of a cache, as a set.
KeysOf(cache) == {cache[i].key : i \in 1..Len(cache)}

\* C30: after any sequence of lazyLoadGzippedJson, preloadData and
\* clearDataCache calls, the keys getCacheStats() reports are exactly the
\* filenames loaded successfully since the last clearDataCache; a load that
\* fails leaves the cache unchanged, lazyLoadGzippedJson throwing and
\* preloadData returning; and a filename already in the cache is answered
\* from the cache without reading a file.
C30_CacheHoldsWhatWasLoaded ==
    /\ {getCacheStats.keys[i] : i \in 1..Len(getCacheStats.keys)} = loaded
    /\ getCacheStats.size = Cardinality(loaded)
    /\ IsCall("getCacheStats", "loader") =>
          {call.result.value.keys[i] : i \in 1..Len(call.result.value.keys)} = loaded
    /\ IsCall("lazyLoadGzippedJson", "loader") =>
          LET before == call.result.before IN
          /\ call.result.thrown => dataCache = before /\ call.result.read = <<>>
          /\ call.result.thrown <=>
                (~MapHas(before, call.arg) /\
                 \A i \in 1..Len(paths(call.arg)) :
                    paths(call.arg)[i] \notin call.result.disk)
          /\ MapHas(before, call.arg) =>
                /\ ~call.result.thrown
                /\ call.result.read = <<>>
                /\ call.result.value = MapGet(before, call.arg)
                /\ dataCache = before
    /\ IsCall("preloadData", "loader") =>
          LET before == call.result.before IN
          /\ ~call.result.thrown
          /\ KeysOf(dataCache) = KeysOf(before) \cup LoadedFrom(call.result.read)
          /\ LoadedFrom(call.result.read) \cap KeysOf(before) = {}
          /\ \A i \in 1..Len(before) : MapGet(dataCache, before[i].key) = before[i].value

\* A lazyLoadGzippedJson call answered from the cache after the file it was
\* loaded from is gone, where an earlier load of another filename failed.
C30_Witness ==
    /\ IsCall("lazyLoadGzippedJson", "loader")
    /\ MapHas(call.result.before, call.arg)
    /\ \A i \in 1..Len(paths(call.arg)) : paths(call.arg)[i] \notin call.result.disk
    /\ Len(dataCache) = 1
    /\ paths("districts")[1] \notin call.result.disk

RECURSIVE SuggestEveryUnit(_, _, _)
\* The loop of getSuggestions with the fuzzy test applied to every unit that
\* matched neither exactly nor partially.
SuggestEveryUnit(units, normalizedQuery, suggestions) ==
    IF units = <<>> THEN suggestions
    ELSE LET unit == Head(units)
             found == ExactOrPartial(unit, normalizedQuery)
             next ==
                IF found # NoSuggestion THEN Append(suggestions, found)
                ELSE IF levenshteinDistance(normalizedQuery, toLowerCase(unit.name))
                           <= FuzzyDistance
                     THEN Append(suggestions, Suggestion(unit, "fuzzy", "name"))
                ELSE suggestions IN
         SuggestEveryUnit(Tail(units), normalizedQuery, next)

\* The list the variant returns: the same sort and the same slice.
SuggestionsOfEveryUnit(query, limit) ==
    slice(SortSuggestions(SuggestEveryUnit(AllUnitsList, trim(toLowerCase(query)), <<>>)),
          limit)

\* C29: for every query and every limit >= 0, getSuggestions of
\* src/src/helpers.ts, which applies the fuzzy test only while fewer than
\* limit suggestions are collected, returns the same list as the variant that
\* applies the fuzzy test to every unit that matched neither exactly nor
\* partially.
C29_FuzzyGuardChangesNothing ==
    (IsCall("getSuggestions", "helpers") /\ call.arg.limit >= 0) =>
        call.result = SuggestionsOfEveryUnit(call.arg.query, call.arg.limit)

\* A call in which the guard kept a fuzzy match out of the collected
\* suggestions, after a fuzzy match and before an exact or partial one.
C29_Witness ==
    /\ IsCall("getSuggestions", "helpers")
    /\ call.arg.limit >= 1
    /\ LET term == trim(toLowerCase(call.arg.query))
           collected == SuggestLoop(AllUnitsList, term, call.arg.limit, <<>>)
           every == SuggestEveryUnit(AllUnitsList, term, <<>>) IN
       /\ Len(collected) < Len(every)
       /\ Len(collected) > call.arg.limit
       /\ \E i \in 1..Len(call.result) : call.result[i].type = "fuzzy"

\* C27: validateCodeFormat and isValidCode of src/src/helpers.ts accept the
\* same codes, the level validateCodeFormat reports for an accepted code is
\* getCodeLevel of the code, and a code with more than five segments after
\* "RW" is rejected by both.
C27_SameCodesAccepted ==
    IsCall("validateCodeFormat", "helpers") =>
        /\ call.result.isValid <=> isValidCode(call.arg)
        /\ call.result.isValid => call.result.level = getCodeLevel(call.arg)
        /\ Len(call.arg) - 1 > 5 => ~call.result.isValid /\ ~isValidCode(call.arg)

\* The part of C27 that the code keeps: the reported level of an accepted
\* code is getCodeLevel of the code.
C27_LevelOfAcceptedCode ==
    IsCall("validateCodeFormat", "helpers") =>
        (call.result.isValid => call.result.level = getCodeLevel(call.arg))

\* Codes longer than five segments after "RW" that validateCodeFormat accepts.
C27_LongCodeAccepted ==
    /\ IsCall("validateCodeFormat", "helpers")
    /\ Len(call.arg) - 1 > 5
    /\ call.result.isValid
    /\ ~isValidCode(call.arg)

\* The number of issues of a type in an issue list.
IssuesOfType(issues, type) ==
    Cardinality({i \in 1..Len(issues) : issues[i].type = type})

\* C26: in every result of validateHierarchyIntegrity of src/src/helpers.ts,
\* isValid is true iff the issue list is empty, each of orphanedUnits,
\* invalidParents, circularReferences and missingUnits equals the number of
\* issues of its type, and every issue carries the code of a unit of the
\* dataset.
C26_ReportIsConsistent ==
    IsCall("validateHierarchyIntegrity", "helpers") =>
        LET result == call.result IN
        /\ result.isValid <=> (result.issues = <<>>)
        /\ result.summary.orphanedUnits = IssuesOfType(result.issues, "orphaned")
        /\ result.summary.invalidParents = IssuesOfType(result.issues, "invalid_parent")
        /\ result.summary.circularReferences
              = IssuesOfType(result.issues, "circular_reference")
        /\ result.summary.missingUnits = IssuesOfType(result.issues, "missing_unit")
        /\ \A i \in 1..Len(result.issues) : IsCodeOfUnit(result.issues[i].code)

\* A result with issues of the three types the datasets give rise to.
C26_Witness ==
    /\ IsCall("validateHierarchyIntegrity", "helpers")
    /\ IssuesOfType(call.result.issues, "orphaned") >= 1
    /\ IssuesOfType(call.result.issues, "invalid_parent") >= 1
    /\ IssuesOfType(call.result.issues, "missing_unit") >= 1

----------------------------------------------------------------------------
RECURSIVE Hops(_, _, _)
\* The number of parentCode links from the unit u up to the code c, in a
\* dataset with distinct codes and without parent cycles.
Hops(u, c, fuel) ==
    IF u.parentCode = c \/ fuel = 0 \/ ~IsCodeOfUnit(u.parentCode) THEN 1
    ELSE 1 + Hops(CHOOSE p \in UnitsWithCode(u.parentCode) : TRUE, c, fuel - 1)

LevelByLevel(units, c) ==
    \A i, j \in 1..Len(units) :
        i < j => Hops(units[i], c, Len(AllUnitsList)) <= Hops(units[j], c, Len(AllUnitsList))

\* C23: getAllDescendants(c) lists the descendants level by level: no unit
\* comes before a unit that is fewer parent hops away from c, in
\* src/src/helpers.ts and in src/unnamed/part_002; stated on the datasets
\* that satisfy the data-model invariants.
C23_DescendantsLevelByLevel ==
    (call # NoCall /\ call.op = "getAllDescendants" /\ WellFormed) =>
        LevelByLevel(call.result, call.arg)

\* The same for the queue of src/unnamed/part_002 alone.
C23_DescendantsLevelByLevelL ==
    (IsCall("getAllDescendants", "lazy") /\ WellFormed) =>
        LevelByLevel(call.result, call.arg)

----------------------------------------------------------------------------
(* Claims about the code format, checked under SpecFormat.                 *)

\* C21: for every code, isValidCode(code) is true exactly when getByCode(code)
\* returns a unit, in src/src/helpers.ts and in src/unnamed/part_002.
C21_ValidIffResolved ==
    /\ IsCall("isValidCode", "helpers") =>
           (call.result <=> getByCode(call.arg) # Undefined)
    /\ IsCall("isValidCode", "lazy") =>
           (call.result <=> getByCodeL(call.arg) # Undefined)

\* The same for src/unnamed/part_002 alone.
C21_ValidIffResolvedL ==
    IsCall("isValidCode", "lazy") =>
        (call.result <=> getByCodeL(call.arg) # Undefined)

----------------------------------------------------------------------------
(* Claims about the order of the suggestions, checked under SpecOrder.     *)

Reorderings(arr) ==
    {[i \in 1..Len(arr) |-> arr[p[i]]] :
        p \in {q \in [1..Len(arr) -> 1..Len(arr)] :
                  \A i, j \in 1..Len(arr) : i # j => q[i] # q[j]}}

\* The units of the dataset in every order the districts can be loaded in.
LoadOrders ==
    {provincesData \o d \o sectorsData \o cellsData \o villagesData :
        d \in Reorderings(districtsData)}

\* What getSuggestions of part_002 returns over an index that holds units in
\* the given order.
SuggestionsOver(units, query, limit) ==
    slice(SortSuggestionsL(SuggestLoopL(units, toLowerCase(query), <<>>)), limit)

\* The pairs of different units the query matches in the same way.
SameTypeUnits ==
    LET type == [u \in UnitSet |-> Classification(u, TermOfCall).type] IN
    {pair \in UnitSet \X UnitSet :
        /\ pair[1] # pair[2]
        /\ type[pair[1]] # "none"
        /\ type[pair[1]] = type[pair[2]]}

AscendingWithinType ==
    \A i, j \in 1..Len(call.result) :
        (i < j /\ call.result[i].type = call.result[j].type) =>
            localeCompare(call.result[i].unit.name, call.result[j].unit.name) <= 0

SameListInEveryLoadOrder ==
    \A units \in LoadOrders :
        SuggestionsOver(units, call.arg.query, call.arg.limit) = call.result

----------------------------------------------------------------------------
(* Claims about the edit distance, checked under SpecDistance.             *)

\* The strings one insertion, deletion or substitution away from s.
OneEdit(s) ==
    {SubSeq(s, 1, i - 1) \o SubSeq(s, i + 1, Len(s)) : i \in 1..Len(s)}
    \cup {[s EXCEPT ![i] = c] : i \in 1..Len(s), c \in Alphabet}
    \cup {SubSeq(s, 1, i) \o <<c>> \o SubSeq(s, i + 1, Len(s)) :
              i \in 0..Len(s), c \in Alphabet}

RECURSIVE EditsFrom(_, _, _, _)
\* The least k such that b is reached from a string of `reached` by k more
\* edits, sought up to most edits.
EditsFrom(reached, b, k, most) ==
    IF b \in reached THEN k
    ELSE IF k = most THEN most + 1
    ELSE EditsFrom(reached \cup UNION {OneEdit(s) : s \in reached}, b, k + 1, most)

\* The minimum number of single-character edits that turn a into b.
MinEdits(a, b) == EditsFrom({a}, b, 0, Len(a) + Len(b))

\* C24: levenshteinDistance(a, b) is the minimum number of single-character
\* insertions, deletions and substitutions that turn a into b, for all
\* strings including the empty one; it is 0 iff a = b, it is symmetric and it
\* never exceeds max(len(a), len(b)).
C24_DistanceIsMinimumEdits ==
    IsCall("levenshteinDistance", "helpers") =>
        LET a == call.arg[1]
            b == call.arg[2] IN
        /\ call.result = MinEdits(a, b)
        /\ (call.result = 0) <=> (a = b)
        /\ call.result = levenshteinDistance(b, a)
        /\ call.result <= Max2(Len(a), Len(b))

\* A pair that needs a substitution and an insertion.
C24_Witness ==
    /\ IsCall("levenshteinDistance", "helpers")
    /\ call.arg = <<<<"a", "b">>, <<"b", "b", "a">>>>
    /\ call.result = 2

----------------------------------------------------------------------------
(* Claims about the lazily loaded implementation, checked under SpecLazy.  *)

LazyQueries ==
    {"getByLevel", "getDistrictsByProvince", "getCounts", "getSummary", "getByCode",
     "searchByName"}

\* C22: no query operation throws, also when the data of a collection cannot
\* be loaded: getAllDistricts, getDistrictsByProvince, getCounts, getSummary,
\* getByCode and the search operations each return a value.
C22_NoQueryThrows ==
    (call # NoCall /\ call.impl = "lazy" /\ call.op \in LazyQueries) =>
        ~call.result.thrown

\* The codes getByCode resolves when called in the current state.
ResolvedCodes == {getAllUnitsMap[i].key : i \in 1..Len(getAllUnitsMap)}

\* The units the five collection accessors return in the current state.
ReturnedUnits ==
    getAllProvincesL \o getAllDistrictsL \o getAllSectorsL \o getAllCellsL
        \o getAllVillagesL

\* C28: after any sequence of query calls, clearDataCache calls and load
\* failures and recoveries, the codes getByCode resolves are exactly the
\* codes of the units getAllProvinces, ..., getAllVillages return.
C28_IndexAgreesWithCollections ==
    ResolvedCodes = {ReturnedUnits[i].code : i \in 1..Len(ReturnedUnits)}

====
